---------------------------- MODULE Spec2Model ----------------------------
(***************************************************************************)
(* Verification model of StahlAnkifier (src/stahl_ankifier.py).            *)
(*                                                                         *)
(* The program is a single-threaded pipeline.  Each component is modelled  *)
(* from its code and checked under its own specification:                  *)
(*                                                                         *)
(*   Spec         parse_drug_pages: the block scan that builds the tree    *)
(*                and the Empty-Header Merger, pass by pass                *)
(*   SpecCloze    one card: answer normalisation, cloze encoding,          *)
(*                post-processing and the cloze gate                       *)
(*   SpecRun      parse_pdf from the parsed trees on: card loop, note      *)
(*                loop, package write, cleanup, empty-answer check         *)
(*   SpecOutline  parse_pdf: the two loops over the table of contents      *)
(*                that derive the entries, their pages and page ranges     *)
(*   SpecPage     _clean_page_headers: the loop over the first paragraphs  *)
(*                of one page                                              *)
(*   SpecValidate parse_pdf from its call on: the checks of the path and   *)
(*                of the card format, the opening of the document, and     *)
(*                then the steps of SpecRun                                *)
(*                                                                         *)
(* Text is a sequence of tokens (one-character strings, or one markup      *)
(* element such as "<br/>"); header texts are strings; a dict is the       *)
(* sequence of its items in insertion order.                               *)
(***************************************************************************)
EXTENDS Integers, Sequences, FiniteSets, TLC

(***************************************************************************)
(* Bounds of the model.                                                    *)
(***************************************************************************)
MaxBlocks == 5

(***************************************************************************)
(* Python dicts: insertion-ordered, keys distinct.                         *)
(***************************************************************************)
Item(key, value) == [k |-> key, v |-> value]

HasKey(d, key) == \E i \in 1..Len(d) : d[i].k = key

DictGet(d, key) == d[CHOOSE i \in 1..Len(d) : d[i].k = key].v

\* an assignment that leaves the value of an existing key as it was
DictSetKeepFirst(d, key, value) ==
    IF HasKey(d, key) THEN d ELSE Append(d, Item(key, value))

\* d[key] = value: an existing key keeps its position, a new key goes last
DictSet(d, key, value) ==
    IF HasKey(d, key)
    THEN [i \in 1..Len(d) |-> IF d[i].k = key THEN Item(key, value) ELSE d[i]]
    ELSE Append(d, Item(key, value))

Keys(d) == [i \in 1..Len(d) |-> d[i].k]

DistinctKeys(d) == \A i, j \in 1..Len(d) : d[i].k = d[j].k => i = j

(***************************************************************************)
(* _merge_empty_consecutive and _merge_empty_headers.                      *)
(***************************************************************************)
\* lambda v: not v
IsEmptyH2(v) == v = <<>>

\* lambda v: not v or all(not content for content in v.values())
IsEmptyH1(v) == v = <<>> \/ \A i \in 1..Len(v) : v[i].v = <<>>

\* the is_empty callable of a call, selected by the level it is called for
is_empty(level, v) == IF level = "h1" THEN IsEmptyH1(v) ELSE IsEmptyH2(v)

\* f"{key} {next_key}"
merged_key(key, next_key) == key \o " " \o next_key

\* MergeScan with "changed" cleared again by every entry that is kept
RECURSIVE MergeScanChangedReset(_, _, _, _)
MergeScanChangedReset(result, level, i, acc) ==
    IF i > Len(result) THEN acc
    ELSE IF is_empty(level, result[i].v) /\ i + 1 <= Len(result)
         THEN MergeScanChangedReset(result, level, i + 2,
                  [d |-> DictSet(acc.d, merged_key(result[i].k, result[i + 1].k),
                                 result[i + 1].v),
                   changed |-> TRUE,
                   merges |-> acc.merges + 1])
         ELSE MergeScanChangedReset(result, level, i + 1,
                  [acc EXCEPT !.d = DictSet(acc.d, result[i].k, result[i].v),
                              !.changed = FALSE])

\* MergeScan advancing by one after a merge, so the following entry is kept too
RECURSIVE MergeScanNoSkip(_, _, _, _)
MergeScanNoSkip(result, level, i, acc) ==
    IF i > Len(result) THEN acc
    ELSE IF is_empty(level, result[i].v) /\ i + 1 <= Len(result)
         THEN MergeScanNoSkip(result, level, i + 1,
                  [d |-> DictSet(acc.d, merged_key(result[i].k, result[i + 1].k),
                                 result[i + 1].v),
                   changed |-> TRUE,
                   merges |-> acc.merges + 1])
         ELSE MergeScanNoSkip(result, level, i + 1,
                  [acc EXCEPT !.d = DictSet(acc.d, result[i].k, result[i].v)])

\* MergeScan giving the merged entry the value of the empty entry
RECURSIVE MergeScanKeepFirstValue(_, _, _, _)
MergeScanKeepFirstValue(result, level, i, acc) ==
    IF i > Len(result) THEN acc
    ELSE IF is_empty(level, result[i].v) /\ i + 1 <= Len(result)
         THEN MergeScanKeepFirstValue(result, level, i + 2,
                  [d |-> DictSet(acc.d, merged_key(result[i].k, result[i + 1].k),
                                 result[i].v),
                   changed |-> TRUE,
                   merges |-> acc.merges + 1])
         ELSE MergeScanKeepFirstValue(result, level, i + 1,
                  [acc EXCEPT !.d = DictSet(acc.d, result[i].k, result[i].v)])

\* One pass of the inner while loop from index i on; acc holds new_result,
\* changed and the number of merges made by the pass.
RECURSIVE MergeScan(_, _, _, _)
MergeScan(result, level, i, acc) ==
    IF i > Len(result) THEN acc
    ELSE IF is_empty(level, result[i].v) /\ i + 1 <= Len(result)
         THEN MergeScan(result, level, i + 2,
                  [d |-> DictSet(acc.d, merged_key(result[i].k, result[i + 1].k),
                                 result[i + 1].v),
                   changed |-> TRUE,
                   merges |-> acc.merges + 1])
         ELSE MergeScan(result, level, i + 1,
                  [acc EXCEPT !.d = DictSet(acc.d, result[i].k, result[i].v)])

\* The body of one iteration of "while changed"
MergePass(result, level) ==
    MergeScan(result, level, 1, [d |-> <<>>, changed |-> FALSE, merges |-> 0])

RECURSIVE MergeLoop(_, _)
MergeLoop(result, level) ==
    LET p == MergePass(result, level)
    IN  IF p.changed THEN MergeLoop(p.d, level) ELSE p.d

_merge_empty_consecutive(d, level) == MergeLoop(d, level)

_merge_empty_headers(drug_dict_in) ==
    LET h1_cleaned_all ==
            [i \in 1..Len(drug_dict_in) |->
                Item(drug_dict_in[i].k,
                     _merge_empty_consecutive(drug_dict_in[i].v, "h2"))]
    IN  _merge_empty_consecutive(h1_cleaned_all, "h1")

(***************************************************************************)
(* Styled blocks handed to parse_drug_pages: one <p> element each.         *)
(*   span      the paragraph holds a <span>                                *)
(*   white     the first span's style holds color:#ffffff                  *)
(*   pt10      the first span's style holds font-size:10.0pt               *)
(*   bold      the paragraph holds a <b>                                   *)
(*   spanText  span.get_text(strip=True)                                   *)
(*   boldText  bold_tag.get_text(strip=True)                               *)
(*   rest      the paragraph's content outside the first <b>, as tokens    *)
(***************************************************************************)
Block(span, white, pt10, bold, spanText, boldText, rest) ==
    [span |-> span, white |-> white, pt10 |-> pt10, bold |-> bold,
     spanText |-> spanText, boldText |-> boldText, rest |-> rest]

MajorTexts == {"AA", "BB", "AA BB", ""}
TopicTexts == {"aa", "bb", "aa bb", "c"}
TrailingTexts == {<<>>, <<"t">>}

Blocks ==
    {Block(FALSE, FALSE, FALSE, FALSE, "", "", <<"n">>)}
    \cup {Block(TRUE, TRUE, FALSE, FALSE, t, "", <<>>) : t \in MajorTexts}
    \cup {Block(TRUE, FALSE, TRUE, TRUE, t, t, r) :
              t \in TopicTexts, r \in TrailingTexts}
    \cup {Block(TRUE, FALSE, FALSE, FALSE, "x", "", <<"x">>)}

Whitespace == {" ", "\n"}

\* get_text(strip=True) of a token sequence is non-empty
HasText(tokens) ==
    \E i \in 1..Len(tokens) :
        tokens[i] \notin Whitespace /\ tokens[i] \notin {"<br/>", "<b>", "</b>"}

\* str(p): the paragraph as stored in a content list
BlockHtml(b) ==
    (IF b.bold THEN <<"<b>", b.boldText, "</b>">> ELSE <<>>) \o b.rest

\* Optional[str]: <<>> is None, <<s>> is the string s
None == <<>>
Some(s) == <<s>>
Truthy(opt) == opt # None /\ opt[1] # ""

\* drug_dict[h1][h2].append(fragment)
AppendContent(d, h1, h2, fragment) ==
    DictSet(d, h1, DictSet(DictGet(d, h1), h2,
                           Append(DictGet(DictGet(d, h1), h2), fragment)))

\* if current_h2 not in drug_dict[current_h1]: drug_dict[current_h1][current_h2] = []
EnsureTopic(d, h1, h2) ==
    IF HasKey(DictGet(d, h1), h2) THEN d
    ELSE DictSet(d, h1, DictSet(DictGet(d, h1), h2, <<>>))

IsMajorHeader(b) == b.span /\ b.white
IsTopicCandidate(b) == b.span /\ ~b.white /\ b.pt10 /\ b.bold
IsContent(b) == b.span /\ ~b.white /\ ~(b.pt10 /\ b.bold)

(***************************************************************************)
(* Markup text.  A text is a sequence of tokens: a word or a character of  *)
(* text ("x", " ", "\n", the bullet glyph), or one tag ("<br/>", "<b>",     *)
(* "<span>", ...), or one cloze marker ("{{c1::", "}}").  A content        *)
(* fragment is the inner content of one <p> element.                       *)
(***************************************************************************)
BR == "<br/>"
\* the bullet glyph U+2022
Bullet == "U+2022"
CloseMarker == "}}"

\* "{{c" + str(n) + "::"
OpenMarker(n) == "{{c" \o ToString(n) \o "::"

AllowedTags == {"<b>", "</b>", "<i>", "</i>", BR, "<p>", "</p>"}
OtherTags == {"<span>", "</span>"}
\* an allowed tag that carries a style attribute
StyledTags == {"<b style>"}
Tags == AllowedTags \cup OtherTags \cup StyledTags

RECURSIVE Concat(_)
Concat(seqs) == IF seqs = <<>> THEN <<>> ELSE Head(seqs) \o Concat(Tail(seqs))

RECURSIVE LStrip(_)
LStrip(s) == IF s # <<>> /\ Head(s) \in Whitespace THEN LStrip(Tail(s)) ELSE s

RECURSIVE RStrip(_)
RStrip(s) ==
    IF s # <<>> /\ s[Len(s)] \in Whitespace THEN RStrip(SubSeq(s, 1, Len(s) - 1))
    ELSE s

\* str.strip()
Strip(s) == RStrip(LStrip(s))

\* str.split(sep) for a one-token separator
RECURSIVE SplitAt(_, _, _, _)
SplitAt(s, sep, i, cur) ==
    IF i > Len(s) THEN <<cur>>
    ELSE IF s[i] = sep THEN <<cur>> \o SplitAt(s, sep, i + 1, <<>>)
         ELSE SplitAt(s, sep, i + 1, Append(cur, s[i]))

Split(s, sep) == SplitAt(s, sep, 1, <<>>)

\* str.splitlines(): no empty last line
SplitLines(s) ==
    LET parts == Split(s, "\n")
    IN  IF parts[Len(parts)] = <<>> THEN SubSeq(parts, 1, Len(parts) - 1)
        ELSE parts

\* the text nodes of a fragment: maximal runs of tokens between tags
RECURSIVE TextNodes(_, _, _)
TextNodes(s, i, cur) ==
    IF i > Len(s) THEN <<cur>>
    ELSE IF s[i] \in Tags THEN <<cur>> \o TextNodes(s, i + 1, <<>>)
         ELSE TextNodes(s, i + 1, Append(cur, s[i]))

\* tag.get_text(strip=True): every text node stripped, empty ones dropped
GetTextStrip(s) ==
    LET nodes == TextNodes(s, 1, <<>>)
    IN  Concat([i \in 1..Len(nodes) |-> Strip(nodes[i])])

\* " ".join(texts)
RECURSIVE JoinSpace(_)
JoinSpace(texts) ==
    IF texts = <<>> THEN <<>>
    ELSE IF Len(texts) = 1 THEN texts[1]
         ELSE texts[1] \o <<" ">> \o JoinSpace(Tail(texts))

\* text.startswith(U+2022)
StartsWithBullet(p) ==
    LET text == GetTextStrip(p) IN text # <<>> /\ text[1] = Bullet

\* lines 219-235: the groups of paragraphs, from paragraph i on
RECURSIVE BulletGroups(_, _, _, _)
BulletGroups(paragraphs, i, groups, current_group) ==
    IF i > Len(paragraphs)
    THEN IF current_group # <<>> THEN Append(groups, current_group) ELSE groups
    ELSE IF StartsWithBullet(paragraphs[i])
         THEN BulletGroups(paragraphs, i + 1,
                  IF current_group # <<>> THEN Append(groups, current_group)
                  ELSE groups,
                  <<paragraphs[i]>>)
         ELSE BulletGroups(paragraphs, i + 1, groups,
                  Append(current_group, paragraphs[i]))

\* MergeGroup keeping only the first paragraph of a group
MergeGroupFirstOnly(group) ==
    IF Len(group) = 1 THEN group[1]
    ELSE GetTextStrip(group[1])

\* lines 238-247: one paragraph per group
MergeGroup(group) ==
    IF Len(group) = 1 THEN group[1]
    ELSE JoinSpace([i \in 1..Len(group) |-> GetTextStrip(group[i])])

\* _merge_bullet_paragraphs, on the list of paragraphs of the html
_merge_bullet_paragraphs(paragraphs) ==
    IF paragraphs = <<>> THEN paragraphs
    ELSE LET groups == BulletGroups(paragraphs, 1, <<>>, <<>>)
         IN  [g \in 1..Len(groups) |-> MergeGroup(groups[g])]

\* lines 317-320: del tag["style"]
Unstyle(tok) == IF tok = "<b style>" THEN "<b>" ELSE tok

\* CleanParagraph without the loop that deletes the style attributes
CleanParagraphKeepStyle(p) == SelectSeq(p, LAMBDA tok : tok \notin OtherTags)

\* lines 310-320: tag.unwrap() of every tag outside allowed_tags, then the
\* style attribute of every remaining tag deleted, within one paragraph
CleanParagraph(p) ==
    LET kept == SelectSeq(p, LAMBDA tok : tok \notin OtherTags)
    IN  [i \in 1..Len(kept) |-> Unstyle(kept[i])]

\* _clean_html_keep_formatting, on the list of paragraphs of the html
_clean_html_keep_formatting(paragraphs) ==
    [i \in 1..Len(paragraphs) |-> CleanParagraph(paragraphs[i])]

\* _remove_paragraph_tags without p.unwrap(): the <p> elements stay
_remove_paragraph_tags_keep_p(paragraphs) ==
    Strip(Concat([i \in 1..Len(paragraphs) |->
                     <<"<p>">> \o Append(paragraphs[i], BR) \o <<"</p>">>]))

\* _remove_paragraph_tags: a <br/> appended to every paragraph, the <p>
\* unwrapped, the whole stripped
_remove_paragraph_tags(paragraphs) ==
    Strip(Concat([i \in 1..Len(paragraphs) |-> Append(paragraphs[i], BR)]))

\* h2_header.lower(), on the header texts of the model
Lower(h) ==
    CASE h \in {"Suggested Reading", "SUGGESTED READING", "suggested reading"}
             -> "suggested reading"
      [] h = "Suggested Readings" -> "suggested readings"
      [] OTHER -> h

\* AnswerText with the header compared as it is written
AnswerTextCaseSensitive(h2_header, content_list) ==
    LET combined_html == content_list
        merged == IF h2_header # "suggested reading"
                  THEN _merge_bullet_paragraphs(combined_html)
                  ELSE combined_html
    IN  _remove_paragraph_tags(_clean_html_keep_formatting(merged))

\* lines 667-681: card["Answer"] of a topic
AnswerText(h2_header, content_list) ==
    LET combined_html == content_list
        merged == IF Lower(h2_header) # "suggested reading"
                  THEN _merge_bullet_paragraphs(combined_html)
                  ELSE combined_html
    IN  _remove_paragraph_tags(_clean_html_keep_formatting(merged))

\* line 686
Question(h2_header) ==
    IF h2_header \in {"Why?"} THEN h2_header ELSE h2_header \o "?"

(***************************************************************************)
(* The cloze encoders of parse_pdf (lines 844-918).                        *)
(***************************************************************************)
\* str.replace(a + b, "") for two adjacent tokens a, b
RECURSIVE RemovePair(_, _, _)
RemovePair(s, a, b) ==
    IF s = <<>> THEN <<>>
    ELSE IF Len(s) >= 2 /\ s[1] = a /\ s[2] = b
         THEN RemovePair(SubSeq(s, 3, Len(s)), a, b)
         ELSE <<s[1]>> \o RemovePair(Tail(s), a, b)

\* lines 848-851
Cleanup(answer_html) ==
    RemovePair(RemovePair(RemovePair(RemovePair(answer_html,
        "<b>", "<b/>"), "<i>", "<i/>"), "<b/>", "<b>"), "<i/>", "<i>")

\* soup.find_all("p") is not empty
HasP(s) == \E i \in 1..Len(s) : s[i] = "<p>"

\* a tag written as text (p.string = ...) is escaped when serialised
Escape(tok) ==
    CASE tok = BR -> "&lt;br/&gt;"
      [] tok = "<b>" -> "&lt;b&gt;"
      [] tok = "</b>" -> "&lt;/b&gt;"
      [] tok = "<i>" -> "&lt;i&gt;"
      [] tok = "</i>" -> "&lt;/i&gt;"
      [] OTHER -> tok

\* lines 860-863: p.string = "{{c1::" + p_content + "}}" for every <p>
RECURSIVE WrapParagraphs(_, _, _)
WrapParagraphs(s, i, inP) ==
    IF i > Len(s) THEN <<>>
    ELSE IF s[i] = "<p>" /\ ~inP
         THEN <<"<p>", OpenMarker(1)>> \o WrapParagraphs(s, i + 1, TRUE)
         ELSE IF s[i] = "</p>" /\ inP
              THEN <<CloseMarker, "</p>">> \o WrapParagraphs(s, i + 1, FALSE)
              ELSE <<IF inP THEN Escape(s[i]) ELSE s[i]>>
                   \o WrapParagraphs(s, i + 1, inP)

\* NextNumberOne counting the units
NextNumberOneCounting(ibr) == ibr + 1
\* the number written after the unit of index ibr (from 0): line 868 / 892
NextNumberOne(ibr) == 1
NextNumberMulti(ibr) == ibr + 1
NextNumber(format, ibr) ==
    IF format = "multicloze" THEN NextNumberMulti(ibr) ELSE NextNumberOne(ibr)

\* lines 866-868 / 890-892: the loop over the split units, from unit i on
RECURSIVE WrapUnits(_, _, _)
WrapUnits(units, i, format) ==
    IF i > Len(units) THEN <<>>
    ELSE units[i] \o <<CloseMarker, BR, OpenMarker(NextNumber(format, i - 1))>>
         \o WrapUnits(units, i + 1, format)

\* SplitCascade without the final "}}" of the <br/> branch
SplitCascadeNoFinalClose(s, format) ==
    IF \E i \in 1..Len(s) : s[i] = BR
    THEN <<OpenMarker(1)>> \o WrapUnits(Split(s, BR), 1, format)
    ELSE <<OpenMarker(1)>> \o s \o <<CloseMarker>>

\* lines 864-877 / 888-901: the cascade below the <p> branch
SplitCascade(s, format) ==
    IF \E i \in 1..Len(s) : s[i] = BR
    THEN <<OpenMarker(1)>> \o WrapUnits(Split(s, BR), 1, format) \o <<CloseMarker>>
    ELSE IF Len(SplitLines(Strip(s))) > 1
         THEN <<OpenMarker(1)>> \o WrapUnits(SplitLines(s), 1, format)
              \o <<CloseMarker>>
         ELSE <<OpenMarker(1)>> \o s \o <<CloseMarker>>

\* SingleCloze wrapping the answer alone, without the two line breaks
SingleClozeNoBreaks(answer_html) ==
    <<OpenMarker(1)>> \o answer_html \o <<CloseMarker>>

\* line 855
SingleCloze(answer_html) ==
    <<OpenMarker(1), BR>> \o answer_html \o <<BR, CloseMarker>>

\* lines 857-877
OneCloze(answer_html) ==
    IF HasP(answer_html) THEN WrapParagraphs(answer_html, 1, FALSE)
    ELSE SplitCascade(answer_html, "onecloze")

\* lines 881-901, when the <p> branch is not taken
MultiCloze(answer_html) == SplitCascade(answer_html, "multicloze")

\* line 886 adds a str and an int: the <p> branch of multicloze raises TypeError
EncodeRaises(format, answer_html) == format = "multicloze" /\ HasP(answer_html)

\* lines 853-903
Encode(format, answer_html) ==
    CASE format = "singlecloze" -> SingleCloze(answer_html)
      [] format = "onecloze" -> OneCloze(answer_html)
      [] format = "multicloze" -> MultiCloze(answer_html)

\* the cloze numbers the encoders can write for the texts of the model
MarkerNumbers == 0..12
OpenMarkers == {OpenMarker(n) : n \in MarkerNumbers}
ClozeNumber(tok) == CHOOSE n \in MarkerNumbers : OpenMarker(n) = tok

\* lines 905-906: replace(U+2022 + " ", "") then replace(U+2022, "")
RemoveBullets(s) ==
    SelectSeq(RemovePair(s, Bullet, " "), LAMBDA tok : tok # Bullet)

\* the index of the "}}" ending an empty span opened at i, or 0
RECURSIVE EmptySpanEnd(_, _)
EmptySpanEnd(s, j) ==
    IF j > Len(s) THEN 0
    ELSE IF s[j] = CloseMarker THEN j
         ELSE IF s[j] \in Whitespace THEN EmptySpanEnd(s, j + 1) ELSE 0

\* line 908: re.sub(r"{{c\d*::\s*}}", "", s)
RECURSIVE RemoveEmptyClozes(_)
RemoveEmptyClozes(s) ==
    IF s = <<>> THEN <<>>
    ELSE IF s[1] \in OpenMarkers /\ EmptySpanEnd(s, 2) # 0
         THEN RemoveEmptyClozes(SubSeq(s, EmptySpanEnd(s, 2) + 1, Len(s)))
         ELSE <<s[1]>> \o RemoveEmptyClozes(Tail(s))

\* line 911: re.sub(r"(<br\s*/?>)+$", "", s)
RECURSIVE TrimTrailingBr(_)
TrimTrailingBr(s) ==
    IF s # <<>> /\ s[Len(s)] = BR THEN TrimTrailingBr(SubSeq(s, 1, Len(s) - 1))
    ELSE s

\* PostProcess without the removal of the empty cloze spans
PostProcessKeepEmpty(cloze) == TrimTrailingBr(Strip(RemoveBullets(cloze)))

\* lines 905-911
PostProcess(cloze) ==
    TrimTrailingBr(Strip(RemoveEmptyClozes(RemoveBullets(cloze))))

\* lines 913-918: "{{c" in cloze_answer and "}}" in cloze_answer
HasOpen(s) == \E i \in 1..Len(s) : s[i] \in OpenMarkers
HasClose(s) == \E i \in 1..Len(s) : s[i] = CloseMarker
GatePasses(s) == HasOpen(s) /\ HasClose(s)

VARIABLES
    drug_dict,      \* parse_drug_pages: the tree (H1 -> H2 -> content list)
    current_h1,     \* cursor: the open major-header
    current_h2,     \* cursor: the open topic-header
    nblocks,        \* paragraphs scanned so far
    pc,             \* position in parse_drug_pages / _merge_empty_headers
    built,          \* the tree as built, before the merger ran
    h1_cleaned,     \* _merge_empty_headers: h1_cleaned
    h1_i,           \* _merge_empty_headers: index of the H1 being cleaned
    level,          \* which is_empty the running call was given
    result,         \* _merge_empty_consecutive: result
    changed,        \* _merge_empty_consecutive: changed
    K0,             \* number of keys the running call started with
    merges,         \* merges made by the running call so far
    passes,         \* passes of the while loop made by the running call
    lastMerges,     \* merges made by the latest pass
    c_format,       \* parse_pdf: format
    c_header,       \* card loop: h2_header
    c_content,      \* card loop: content_list
    c_answer,       \* card["Answer"]
    c_raw,          \* cloze_answer as encoded (line 903)
    c_cloze,        \* cloze_answer after post-processing (line 911)
    c_pc,           \* position in the handling of the card
    r_format,       \* parse_pdf: format
    drug_content,   \* parse_pdf: drug_content (drug name -> merged tree)
    temp_dir,       \* the directory of tempfile.mkdtemp: "none", "exists", "removed"
    cards,          \* parse_pdf: cards
    notes,          \* the notes added to anki_deck, by their answer text
    drug_i,         \* card loop: index of the entry being handled
    note_i,         \* note loop: index of the card being handled
    package_written,\* write_to_file has written the .apkg file
    warnings,       \* empty_answer_indices, as logged
    error,          \* the exception that ended the run, or "none"
    r_pc,           \* position in parse_pdf
    table_of_contents, \* parse_pdf: table_of_contents (title, page)
    total_pages,    \* pdf_data["total_pages"]
    drug_page,      \* parse_pdf: drug_page (identifier -> pages collected)
    drug_images,    \* parse_pdf: drug_images (identifier -> pages rendered)
    drug_page_ranges, \* parse_pdf: drug_page_ranges
    o_idx,          \* idx of the running enumerate(table_of_contents)
    o_pc,           \* position in the outline loops
    pdf_exists,     \* pdf_file.exists()
    pdf_suffix,     \* pdf_file.suffix
    doc_opened,     \* fitz.open(pdf_path) has been called
    page_soup,      \* _clean_page_headers: soup, the paragraphs of the page
    h_drug_name,    \* _clean_page_headers: drug_name
    soup_copy,      \* _clean_page_headers: soup_copy
    h_paragraphs,   \* _clean_page_headers: paragraphs (find_all on the copy)
    h_i,            \* _clean_page_headers: iterations of the loop made
    h_pc            \* position in _clean_page_headers

treeVars == <<drug_dict, current_h1, current_h2, nblocks, pc, built>>
mergeVars == <<h1_cleaned, h1_i, level, result, changed, K0, merges, passes,
               lastMerges>>
clozeVars == <<c_format, c_header, c_content, c_answer, c_raw, c_cloze, c_pc>>
runVars == <<r_format, drug_content, temp_dir, cards, notes, drug_i, note_i,
             package_written, warnings, error, r_pc>>
outlineVars == <<table_of_contents, total_pages, drug_page, drug_images,
                 drug_page_ranges, o_idx, o_pc>>
fileVars == <<pdf_exists, pdf_suffix, doc_opened>>
pageVars == <<page_soup, h_drug_name, soup_copy, h_paragraphs, h_i, h_pc>>
vars == <<treeVars, mergeVars, clozeVars, runVars, outlineVars, fileVars,
          pageVars>>

\* what the steps of parse_drug_pages leave alone
NotTree == <<clozeVars, runVars, outlineVars, fileVars, pageVars>>
\* what the steps on one card leave alone
NotCloze == <<treeVars, mergeVars, runVars, outlineVars, fileVars, pageVars>>
\* what the steps of a run of parse_pdf leave alone
NotRun == <<treeVars, mergeVars, clozeVars, outlineVars, fileVars, pageVars>>
\* what the loops over the table of contents leave alone
NotOutline == <<treeVars, mergeVars, clozeVars, runVars, fileVars, pageVars>>
\* what the steps of _clean_page_headers leave alone
NotPage == <<treeVars, mergeVars, clozeVars, runVars, outlineVars, fileVars>>

TreeInit ==
    /\ drug_dict = <<>>
    /\ current_h1 = None
    /\ current_h2 = None
    /\ nblocks = 0
    /\ pc = "scan"
    /\ built = <<>>

MergeIdle ==
    /\ h1_cleaned = <<>>
    /\ h1_i = 0
    /\ level = "none"
    /\ result = <<>>
    /\ changed = FALSE
    /\ K0 = 0
    /\ merges = 0
    /\ passes = 0
    /\ lastMerges = 0

ClozeIdle ==
    /\ c_format = "basic"
    /\ c_header = ""
    /\ c_content = <<>>
    /\ c_answer = <<>>
    /\ c_raw = <<>>
    /\ c_cloze = <<>>
    /\ c_pc = "idle"

RunIdle ==
    /\ r_format = "basic"
    /\ drug_content = <<>>
    /\ temp_dir = "none"
    /\ cards = <<>>
    /\ notes = <<>>
    /\ drug_i = 0
    /\ note_i = 0
    /\ package_written = FALSE
    /\ warnings = <<>>
    /\ error = "none"
    /\ r_pc = "idle"

OutlineIdle ==
    /\ table_of_contents = <<>>
    /\ total_pages = 0
    /\ drug_page = <<>>
    /\ drug_images = <<>>
    /\ drug_page_ranges = <<>>
    /\ o_idx = 0
    /\ o_pc = "idle"

\* no page is being cleaned
PageIdle ==
    /\ page_soup = <<>>
    /\ h_drug_name = ""
    /\ soup_copy = <<>>
    /\ h_paragraphs = <<>>
    /\ h_i = 0
    /\ h_pc = "idle"

\* the document of the run: a PDF file that exists and has been read
FileRead ==
    /\ pdf_exists = TRUE
    /\ pdf_suffix = ".pdf"
    /\ doc_opened = TRUE

Init ==
    /\ TreeInit /\ MergeIdle /\ ClozeIdle /\ RunIdle /\ OutlineIdle /\ FileRead
    /\ PageIdle

\* lines 356-358: a paragraph without a span is skipped
ScanNoSpan(b) ==
    /\ pc = "scan" /\ nblocks < MaxBlocks
    /\ ~b.span
    /\ nblocks' = nblocks + 1
    /\ UNCHANGED <<drug_dict, current_h1, current_h2, pc, built, mergeVars>>
    /\ UNCHANGED NotTree

\* ScanMajorHeader leaving the open topic-header as it is
ScanMajorHeaderKeepTopic(b) ==
    /\ pc = "scan" /\ nblocks < MaxBlocks
    /\ IsMajorHeader(b)
    /\ current_h1' = Some(b.spanText)
    /\ drug_dict' = IF HasKey(drug_dict, b.spanText) THEN drug_dict
                    ELSE DictSet(drug_dict, b.spanText, <<>>)
    /\ nblocks' = nblocks + 1
    /\ UNCHANGED <<current_h2, pc, built, mergeVars>>
    /\ UNCHANGED NotTree

\* lines 363-369: an H1 header
ScanMajorHeader(b) ==
    /\ pc = "scan" /\ nblocks < MaxBlocks
    /\ IsMajorHeader(b)
    /\ current_h1' = Some(b.spanText)
    /\ drug_dict' = IF HasKey(drug_dict, b.spanText) THEN drug_dict
                    ELSE DictSet(drug_dict, b.spanText, <<>>)
    /\ current_h2' = None
    /\ nblocks' = nblocks + 1
    /\ UNCHANGED <<pc, built, mergeVars>>
    /\ UNCHANGED NotTree

\* the tree after a non-degenerate H2 header (lines 381-395)
TopicHeaderTree(d, h1, b) ==
    IF Truthy(h1) /\ Truthy(Some(b.boldText))
    THEN LET ensured == EnsureTopic(d, h1[1], b.boldText)
         IN  IF b.bold /\ HasText(b.rest)
             THEN AppendContent(ensured, h1[1], b.boldText, b.rest)
             ELSE ensured
    ELSE d

\* lines 373-396: an H2 header candidate
ScanTopicHeader(b) ==
    /\ pc = "scan" /\ nblocks < MaxBlocks
    /\ IsTopicCandidate(b)
    /\ IF b.boldText # "" /\ Len(b.boldText) > 1
       THEN /\ current_h2' = Some(b.boldText)
            /\ drug_dict' = TopicHeaderTree(drug_dict, current_h1, b)
       ELSE UNCHANGED <<current_h2, drug_dict>>
    /\ nblocks' = nblocks + 1
    /\ UNCHANGED <<current_h1, pc, built, mergeVars>>
    /\ UNCHANGED NotTree

\* lines 399-401: regular content
ScanContent(b) ==
    /\ pc = "scan" /\ nblocks < MaxBlocks
    /\ IsContent(b)
    /\ drug_dict' = IF Truthy(current_h1) /\ Truthy(current_h2)
                    THEN AppendContent(drug_dict, current_h1[1], current_h2[1],
                                       BlockHtml(b))
                    ELSE drug_dict
    /\ nblocks' = nblocks + 1
    /\ UNCHANGED <<current_h1, current_h2, pc, built, mergeVars>>
    /\ UNCHANGED NotTree

\* lines 405, 178: the scan is over, _merge_empty_headers starts
BeginMerge ==
    /\ pc = "scan"
    /\ pc' = "h2_loop"
    /\ built' = drug_dict
    /\ h1_cleaned' = <<>>
    /\ h1_i' = 1
    /\ UNCHANGED <<drug_dict, current_h1, current_h2, nblocks,
                   level, result, changed, K0, merges, passes, lastMerges>>
    /\ UNCHANGED NotTree

\* lines 128-129, entered from line 180 or from line 184
EnterCall(d, lvl) ==
    /\ level' = lvl
    /\ result' = d
    /\ changed' = TRUE
    /\ K0' = Len(d)
    /\ merges' = 0
    /\ passes' = 0
    /\ lastMerges' = 0
    /\ pc' = "while"

\* lines 179-180: the H2 headers of the next H1
CallH2 ==
    /\ pc = "h2_loop" /\ h1_i <= Len(drug_dict)
    /\ EnterCall(drug_dict[h1_i].v, "h2")
    /\ UNCHANGED <<drug_dict, current_h1, current_h2, nblocks, built,
                   h1_cleaned, h1_i>>
    /\ UNCHANGED NotTree

\* lines 184-186: the H1 headers
CallH1 ==
    /\ pc = "h2_loop" /\ h1_i > Len(drug_dict)
    /\ EnterCall(h1_cleaned, "h1")
    /\ UNCHANGED <<drug_dict, current_h1, current_h2, nblocks, built,
                   h1_cleaned, h1_i>>
    /\ UNCHANGED NotTree

\* WhilePass leaving the loop after its first pass
WhilePassOnce ==
    /\ pc = "while" /\ changed
    /\ LET p == MergePass(result, level)
       IN  /\ result' = p.d
           /\ changed' = FALSE
           /\ merges' = merges + p.merges
           /\ lastMerges' = p.merges
    /\ passes' = passes + 1
    /\ UNCHANGED <<treeVars, h1_cleaned, h1_i, level, K0>>
    /\ UNCHANGED NotTree

\* lines 131-152: one iteration of "while changed"
WhilePass ==
    /\ pc = "while" /\ changed
    /\ LET p == MergePass(result, level)
       IN  /\ result' = p.d
           /\ changed' = p.changed
           /\ merges' = merges + p.merges
           /\ lastMerges' = p.merges
    /\ passes' = passes + 1
    /\ UNCHANGED <<treeVars, h1_cleaned, h1_i, level, K0>>
    /\ UNCHANGED NotTree

\* line 154 back to line 180
ReturnH2 ==
    /\ pc = "while" /\ ~changed /\ level = "h2"
    /\ h1_cleaned' = DictSet(h1_cleaned, drug_dict[h1_i].k, result)
    /\ h1_i' = h1_i + 1
    /\ pc' = "h2_loop"
    /\ UNCHANGED <<drug_dict, current_h1, current_h2, nblocks, built,
                   level, result, changed, K0, merges, passes, lastMerges>>
    /\ UNCHANGED NotTree

\* line 154 back to lines 184-188 and 405-407
ReturnH1 ==
    /\ pc = "while" /\ ~changed /\ level = "h1"
    /\ drug_dict' = result
    /\ pc' = "done"
    /\ UNCHANGED <<current_h1, current_h2, nblocks, built, mergeVars>>
    /\ UNCHANGED NotTree

Next ==
    \/ \E b \in Blocks : ScanNoSpan(b)
    \/ \E b \in Blocks : ScanMajorHeader(b)
    \/ \E b \in Blocks : ScanTopicHeader(b)
    \/ \E b \in Blocks : ScanContent(b)
    \/ BeginMerge
    \/ CallH2
    \/ CallH1
    \/ WhilePass
    \/ ReturnH2
    \/ ReturnH1

Spec == Init /\ [][Next]_vars

(***************************************************************************)
(* SpecCloze: one topic of the card loop and of the note loop of           *)
(* parse_pdf, for every format and a bounded list of content fragments.    *)
(***************************************************************************)
MaxParas == 3

Formats == {"basic", "singlecloze", "onecloze", "multicloze"}

\* the fragments a content list of the model is made of
Paragraphs ==
    { <<"<span>", Bullet, " ", "x", "</span>">>,
      <<"y">>,
      <<Bullet>>,
      <<" ">>,
      <<"<span>", "Drowsiness;", " ", "fatigue", "</span>">>,
      <<Bullet, " ", "<b>", "z", "</b>">>,
      <<"<span>", "<b style>", "w", "</b>", "</span>">> }

RECURSIVE ListsUpTo(_, _)
ListsUpTo(S, n) ==
    IF n = 0 THEN {<<>>}
    ELSE LET shorter == ListsUpTo(S, n - 1)
         IN  shorter \cup {Append(l, x) : l \in shorter, x \in S}

ClozeInit ==
    /\ c_format \in Formats
    /\ c_header \in {"aa", "Suggested Reading", "SUGGESTED READING",
                     "Suggested Readings"}
    /\ c_content \in ListsUpTo(Paragraphs, MaxParas)
    /\ c_answer = <<>>
    /\ c_raw = <<>>
    /\ c_cloze = <<>>
    /\ c_pc = "topic"
    /\ TreeInit /\ MergeIdle /\ RunIdle /\ OutlineIdle /\ FileRead /\ PageIdle

\* lines 667-698: the card of the topic
MakeCard ==
    /\ c_pc = "topic"
    /\ c_answer' = AnswerText(c_header, c_content)
    /\ c_pc' = "card"
    /\ UNCHANGED <<c_format, c_header, c_content, c_raw, c_cloze>>
    /\ UNCHANGED NotCloze

\* lines 828-841, 938: the note of a basic card
AddBasicNote ==
    /\ c_pc = "card" /\ c_format = "basic"
    /\ c_pc' = "added"
    /\ UNCHANGED <<c_format, c_header, c_content, c_answer, c_raw, c_cloze>>
    /\ UNCHANGED NotCloze

\* lines 844-903: the answer encoded for the cloze format
EncodeCloze ==
    /\ c_pc = "card" /\ c_format # "basic"
    /\ IF EncodeRaises(c_format, Cleanup(c_answer))
       THEN c_pc' = "TypeError" /\ UNCHANGED c_raw
       ELSE c_pc' = "encoded" /\ c_raw' = Encode(c_format, Cleanup(c_answer))
    /\ UNCHANGED <<c_format, c_header, c_content, c_answer, c_cloze>>
    /\ UNCHANGED NotCloze

\* lines 905-911
PostProcessCloze ==
    /\ c_pc = "encoded"
    /\ c_cloze' = PostProcess(c_raw)
    /\ c_pc' = "post"
    /\ UNCHANGED <<c_format, c_header, c_content, c_answer, c_raw>>
    /\ UNCHANGED NotCloze

\* lines 913-938: the cloze gate, then the note is added
GateCloze ==
    /\ c_pc = "post"
    /\ c_pc' = IF GatePasses(c_cloze) THEN "added" ELSE "AssertionError"
    /\ UNCHANGED <<c_format, c_header, c_content, c_answer, c_raw, c_cloze>>
    /\ UNCHANGED NotCloze

ClozeNext ==
    \/ MakeCard
    \/ AddBasicNote
    \/ EncodeCloze
    \/ PostProcessCloze
    \/ GateCloze

SpecCloze == ClozeInit /\ [][ClozeNext]_vars

(***************************************************************************)
(* SpecRun: a run of parse_pdf from the parsed trees on (lines 607-969):   *)
(* the temporary directory, the card loop, the note loop with the cloze    *)
(* gate, the package, the clean-up and the empty-answer check.  The page   *)
(* range and image fields of a card play no part here and are left out.    *)
(***************************************************************************)
MaxDrugs == 2

DrugNames == {"BUSPIRONE", "ZOLPIDEM", "METHYLPHENIDATE_D"}

\* str.title() and the drug field, on the header texts of the model
Title(h) ==
    CASE h = "AA" -> "Aa"
      [] h = "BB" -> "Bb"
      [] h = "AA BB" -> "Aa Bb"
      [] h = "BUSPIRONE" -> "Buspirone"
      [] h = "ZOLPIDEM" -> "Zolpidem"
      [] h = "METHYLPHENIDATE D" -> "Methylphenidate D"
      [] OTHER -> h

\* drug_name.replace("_", " ")
UnderscoreToSpace(name) ==
    IF name = "METHYLPHENIDATE_D" THEN "METHYLPHENIDATE D" ELSE name

\* s.lower().replace(" ", "_")
LowerUnderscore(h) ==
    CASE h = "AA" -> "aa"
      [] h = "BB" -> "bb"
      [] h = "AA BB" -> "aa_bb"
      [] h = "BUSPIRONE" -> "buspirone"
      [] h = "ZOLPIDEM" -> "zolpidem"
      [] h = "METHYLPHENIDATE_D" -> "methylphenidate_d"
      [] OTHER -> h

\* the trees parse_drug_pages builds for the entries of the model
BuiltTrees ==
    { <<>>,
      <<Item("AA", <<>>)>>,
      <<Item("AA", <<Item("aa", <<>>)>>)>>,
      <<Item("AA", <<Item("aa", << <<Bullet, " ", "x">> >>)>>)>>,
      <<Item("AA", <<Item("aa", << <<Bullet>> >>)>>)>>,
      <<Item("AA", <<Item("aa", << <<Bullet, " ", "x">>, <<"y">> >>),
                     Item("bb", <<>>)>>),
        Item("BB", <<Item("aa", << <<Bullet, " ", "z">> >>)>>)>> }

\* lines 688-697: the card of one topic
Card(drug_name, h1_header, h2_header, content_list) ==
    [Drug |-> Title(UnderscoreToSpace(drug_name)),
     Section |-> Title(h1_header),
     Question |-> Question(h2_header),
     Answer |-> AnswerText(h2_header, content_list),
     Tags |-> <<"Stahl::" \o LowerUnderscore(drug_name) \o "::"
                \o LowerUnderscore(h1_header)>>]

\* CardsOfTopics skipping the topics whose content list is empty
CardsOfTopicsSkipEmpty(drug_name, h1_header, h2_dict) ==
    LET kept == SelectSeq(h2_dict, LAMBDA it : it.v # <<>>)
    IN  [j \in 1..Len(kept) |-> Card(drug_name, h1_header, kept[j].k, kept[j].v)]

\* lines 659-698: the cards of the topics of one major-header
CardsOfTopics(drug_name, h1_header, h2_dict) ==
    [j \in 1..Len(h2_dict) |->
        Card(drug_name, h1_header, h2_dict[j].k, h2_dict[j].v)]

\* lines 658-698: the cards of one entry
CardsOfDrug(drug_name, h1_dict) ==
    Concat([i \in 1..Len(h1_dict) |->
                CardsOfTopics(drug_name, h1_dict[i].k, h1_dict[i].v)])

\* lines 844-911: the cloze answer of a card
ClozeAnswer(format, card) == PostProcess(Encode(format, Cleanup(card.Answer)))

\* line 957: not card["Answer"] or not card["Answer"].strip()
EmptyAnswer(card) == card.Answer = <<>> \/ Strip(card.Answer) = <<>>

RECURSIVE DrugDicts(_)
DrugDicts(n) ==
    IF n = 0 THEN {<<>>}
    ELSE LET shorter == DrugDicts(n - 1)
         IN  shorter \cup
             {Append(d, Item(name, _merge_empty_headers(t))) :
                 d \in {x \in shorter : Len(x) = n - 1},
                 name \in DrugNames, t \in BuiltTrees}

\* lines 611-624: drug_content holds the merged tree of every entry
RunInit ==
    /\ r_format \in Formats
    /\ drug_content \in {d \in DrugDicts(MaxDrugs) : DistinctKeys(d)}
    /\ temp_dir = "none"
    /\ cards = <<>>
    /\ notes = <<>>
    /\ drug_i = 0
    /\ note_i = 0
    /\ package_written = FALSE
    /\ warnings = <<>>
    /\ error = "none"
    /\ r_pc = "start"
    /\ TreeInit /\ MergeIdle /\ ClozeIdle /\ OutlineIdle /\ FileRead /\ PageIdle

\* lines 626-630
MakeTempDir ==
    /\ r_pc = "start"
    /\ temp_dir' = "exists"
    /\ drug_i' = 1
    /\ r_pc' = "cards"
    /\ UNCHANGED <<r_format, drug_content, cards, notes, note_i,
                   package_written, warnings, error>>
    /\ UNCHANGED NotRun

\* lines 636-698: the card loop, the cards of one entry
CreateCards ==
    /\ r_pc = "cards" /\ drug_i <= Len(drug_content)
    /\ cards' = cards \o CardsOfDrug(drug_content[drug_i].k,
                                     drug_content[drug_i].v)
    /\ drug_i' = drug_i + 1
    /\ UNCHANGED <<r_format, drug_content, temp_dir, notes, note_i,
                   package_written, warnings, error, r_pc>>
    /\ UNCHANGED NotRun

\* lines 700-827: the card loop is over, the deck is created
CreateDeck ==
    /\ r_pc = "cards" /\ drug_i > Len(drug_content)
    /\ note_i' = 1
    /\ r_pc' = "notes"
    /\ UNCHANGED <<r_format, drug_content, temp_dir, cards, notes, drug_i,
                   package_written, warnings, error>>
    /\ UNCHANGED NotRun

\* AddNote leaving out a card that fails the cloze gate instead of raising
AddNoteSkipOffending ==
    /\ r_pc = "notes" /\ note_i <= Len(cards)
    /\ LET card == cards[note_i]
       IN  IF r_format = "basic"
           THEN notes' = Append(notes, card.Answer)
           ELSE IF GatePasses(ClozeAnswer(r_format, card))
                THEN notes' = Append(notes, ClozeAnswer(r_format, card))
                ELSE notes' = notes
    /\ note_i' = note_i + 1
    /\ UNCHANGED <<r_format, drug_content, temp_dir, cards, drug_i,
                   package_written, warnings, error, r_pc>>
    /\ UNCHANGED NotRun

\* lines 827-938: the note of one card; a failed assert or the TypeError of
\* line 886 ends the run
AddNote ==
    /\ r_pc = "notes" /\ note_i <= Len(cards)
    /\ LET card == cards[note_i]
       IN  IF r_format = "basic"
           THEN /\ notes' = Append(notes, card.Answer)
                /\ note_i' = note_i + 1
                /\ UNCHANGED <<error, r_pc>>
           ELSE IF EncodeRaises(r_format, Cleanup(card.Answer))
                THEN /\ error' = "TypeError"
                     /\ r_pc' = "aborted"
                     /\ UNCHANGED <<notes, note_i>>
                ELSE IF GatePasses(ClozeAnswer(r_format, card))
                     THEN /\ notes' = Append(notes, ClozeAnswer(r_format, card))
                          /\ note_i' = note_i + 1
                          /\ UNCHANGED <<error, r_pc>>
                     ELSE /\ error' = "AssertionError"
                          /\ r_pc' = "aborted"
                          /\ UNCHANGED <<notes, note_i>>
    /\ UNCHANGED <<r_format, drug_content, temp_dir, cards, drug_i,
                   package_written, warnings>>
    /\ UNCHANGED NotRun

\* lines 940-946
WritePackage ==
    /\ r_pc = "notes" /\ note_i > Len(cards)
    /\ package_written' = TRUE
    /\ r_pc' = "cleanup"
    /\ UNCHANGED <<r_format, drug_content, temp_dir, cards, notes, drug_i,
                   note_i, warnings, error>>
    /\ UNCHANGED NotRun

\* lines 948-951
RemoveTempDir ==
    /\ r_pc = "cleanup"
    /\ temp_dir' = "removed"
    /\ r_pc' = "check"
    /\ UNCHANGED <<r_format, drug_content, cards, notes, drug_i, note_i,
                   package_written, warnings, error>>
    /\ UNCHANGED NotRun

\* lines 955-962: the indices (from 0) of the cards with an empty answer
RECURSIVE EmptyAnswerIndices(_, _)
EmptyAnswerIndices(cs, idx) ==
    IF idx >= Len(cs) THEN <<>>
    ELSE (IF EmptyAnswer(cs[idx + 1]) THEN <<idx>> ELSE <<>>)
         \o EmptyAnswerIndices(cs, idx + 1)

\* lines 953-969
CheckEmptyAnswers ==
    /\ r_pc = "check"
    /\ warnings' = EmptyAnswerIndices(cards, 0)
    /\ r_pc' = "finished"
    /\ UNCHANGED <<r_format, drug_content, temp_dir, cards, notes, drug_i,
                   note_i, package_written, error>>
    /\ UNCHANGED NotRun

RunNext ==
    \/ MakeTempDir
    \/ CreateCards
    \/ CreateDeck
    \/ AddNote
    \/ WritePackage
    \/ RemoveTempDir
    \/ CheckEmptyAnswers

SpecRun == RunInit /\ [][RunNext]_vars

(***************************************************************************)
(* SpecValidate: a run of parse_pdf from the call on: the validation of    *)
(* the arguments (lines 449-461), the document opened, read and parsed     *)
(* (lines 463-624), then the steps of SpecRun.                             *)
(***************************************************************************)
\* line 458
valid_formats == {"basic", "singlecloze", "onecloze", "multicloze"}

\* values of the format argument that are not valid
OtherFormats == {"cloze", "Basic", ""}

Suffixes == {".pdf", ".PDF", ".txt"}

\* pdf_file.suffix.lower()
SuffixLower(suffix) == IF suffix = ".PDF" THEN ".pdf" ELSE suffix

\* the call of parse_pdf
ValidateInit ==
    /\ r_format \in valid_formats \cup OtherFormats
    /\ pdf_exists \in BOOLEAN
    /\ pdf_suffix \in Suffixes
    /\ doc_opened = FALSE
    /\ drug_content = <<>>
    /\ temp_dir = "none"
    /\ cards = <<>>
    /\ notes = <<>>
    /\ drug_i = 0
    /\ note_i = 0
    /\ package_written = FALSE
    /\ warnings = <<>>
    /\ error = "none"
    /\ r_pc = "validate"
    /\ TreeInit /\ MergeIdle /\ ClozeIdle /\ OutlineIdle /\ PageIdle

\* lines 452-455: the file exists and is a PDF
ValidatePath ==
    /\ r_pc = "validate"
    /\ IF ~pdf_exists
       THEN error' = "FileNotFoundError" /\ r_pc' = "rejected"
       ELSE IF SuffixLower(pdf_suffix) # ".pdf"
       THEN error' = "ValueError" /\ r_pc' = "rejected"
       ELSE error' = error /\ r_pc' = "format"
    /\ UNCHANGED <<r_format, drug_content, temp_dir, cards, notes, drug_i,
                   note_i, package_written, warnings>>
    /\ UNCHANGED NotRun

\* ValidateFormat accepting every value
ValidateFormatNoCheck ==
    /\ r_pc = "format"
    /\ r_pc' = "open"
    /\ UNCHANGED <<r_format, drug_content, temp_dir, cards, notes, drug_i,
                   note_i, package_written, warnings, error>>
    /\ UNCHANGED NotRun

\* lines 457-461: the format argument
ValidateFormat ==
    /\ r_pc = "format"
    /\ IF r_format \notin valid_formats
       THEN error' = "ValueError" /\ r_pc' = "rejected"
       ELSE error' = error /\ r_pc' = "open"
    /\ UNCHANGED <<r_format, drug_content, temp_dir, cards, notes, drug_i,
                   note_i, package_written, warnings>>
    /\ UNCHANGED NotRun

\* lines 463-624: the document is opened, read and closed, and every entry
\* of the outline is parsed into its merged tree
OpenDocument ==
    /\ r_pc = "open"
    /\ doc_opened' = TRUE
    /\ \E d \in {x \in DrugDicts(MaxDrugs) : DistinctKeys(x)} :
          drug_content' = d
    /\ r_pc' = "start"
    /\ UNCHANGED <<r_format, temp_dir, cards, notes, drug_i, note_i,
                   package_written, warnings, error>>
    /\ UNCHANGED <<pdf_exists, pdf_suffix>>
    /\ UNCHANGED <<treeVars, mergeVars, clozeVars, outlineVars, pageVars>>

ValidateNext ==
    \/ ValidatePath
    \/ ValidateFormat
    \/ OpenDocument
    \/ RunNext

SpecValidate == ValidateInit /\ [][ValidateNext]_vars

(***************************************************************************)
(* SpecOutline: the loops of parse_pdf over the table of contents.         *)
(* A title is the sequence of its underscore-separated segments,           *)
(* title_text.split("_"); a page is its 1-based number.                    *)
(***************************************************************************)
MaxToc == 3
MaxPages == 3

\* segments with a cased character and no lowercase one
UpperTokens == {"BUSPIRONE", "ZOLPIDEM", "METHYLPHENIDATE", "D"}
\* segments with a lowercase character
LowerTokens == {"pp", "Index", "Intro"}

\* "_".join(tokens)
RECURSIVE JoinUnderscore(_)
JoinUnderscore(tokens) ==
    IF tokens = <<>> THEN ""
    ELSE IF Len(tokens) = 1 THEN tokens[1]
    ELSE tokens[1] \o "_" \o JoinUnderscore(Tail(tokens))

\* line 535: "_pp_" in title_text, a segment pp with a segment on each side
HasPP(title) == \E i \in 2..(Len(title) - 1) : title[i] = "pp"

\* lines 537-541: title_text.split("_pp_", 1)[1].split("_")
AfterPP(title) ==
    LET i == CHOOSE n \in 2..(Len(title) - 1) :
                 /\ title[n] = "pp"
                 /\ \A m \in 2..(n - 1) : title[m] # "pp"
    IN  SubSeq(title, i + 1, Len(title))

\* line 550: drug_name.replace("_", "").isupper()
IsUpper(tokens) ==
    /\ \E i \in 1..Len(tokens) : tokens[i] \in UpperTokens
    /\ \A i \in 1..Len(tokens) : tokens[i] \notin LowerTokens

\* lines 535-550: the title gives an identifier
IsDrugTitle(title) ==
    /\ HasPP(title)
    /\ Len(AfterPP(title)) >= 3
    /\ JoinUnderscore(SubSeq(AfterPP(title), 3, Len(AfterPP(title)))) # ""
    /\ IsUpper(SubSeq(AfterPP(title), 3, Len(AfterPP(title))))

\* line 546: drug_name = "_".join(parts[2:])
DrugName(title) ==
    JoinUnderscore(SubSeq(AfterPP(title), 3, Len(AfterPP(title))))

\* src/parse_pdf.py line 375: last_segment = segments[-1]
LastSegment(title) == title[Len(title)]

\* src/parse_pdf.py lines 373-378, the rule of the older script: the last
\* segment is not empty and is all uppercase
IsDrugTitleTrailing(title) ==
    /\ Len(title) >= 1
    /\ LastSegment(title) # ""
    /\ LastSegment(title) \in UpperTokens

\* the end page with the page of the following item taken as it is
EndPageNoMinusOne(toc, idx, total) ==
    IF idx + 1 < Len(toc) THEN toc[idx + 2].page ELSE total

\* the end page taken from the next item that gives an identifier
EndPageNextSurviving(toc, idx, total) ==
    IF \E j \in (idx + 2)..Len(toc) : IsDrugTitle(toc[j].title)
    THEN toc[CHOOSE j \in (idx + 2)..Len(toc) :
                 /\ IsDrugTitle(toc[j].title)
                 /\ \A m \in (idx + 2)..(j - 1) : ~IsDrugTitle(toc[m].title)
            ].page - 1
    ELSE total

\* lines 555-558 and 591-594; idx counts from 0 as enumerate does
EndPage(toc, idx, total) ==
    IF idx + 1 < Len(toc) THEN toc[idx + 2].page - 1 ELSE total

\* lines 562-565 and 598-600: the pages of range(start_page, end_page + 1)
\* that the document has
PagesInRange(start_page, end_page, total) ==
    SelectSeq([i \in 1..(end_page - start_page + 1) |-> start_page + i - 1],
              LAMBDA page_num : page_num \in 1..total)

Titles ==
    { <<"26.0", "pp", "125", "128", "BUSPIRONE">>,
      <<"90.0", "pp", "497", "502", "METHYLPHENIDATE", "D">>,
      <<"Index">>,
      <<"1.0", "pp", "1", "2", "Intro">> }

\* further titles that follow the entry of the BUSPIRONE outline
OtherTitles ==
    { <<"27.0", "pp", "130", "134", "ZOLPIDEM">>,
      <<"2.0", "pp", "5">>,
      <<"pp", "1", "2", "ZOLPIDEM">>,
      <<"3.0", "pp", "7", "9", "12">>,
      <<"4.0", "pp", "pp", "1", "2", "D">> }

TocItem(title_text, page_num) == [title |-> title_text, page |-> page_num]

BuspironeTitle == <<"26.0", "pp", "125", "128", "BUSPIRONE">>

\* title 26.0_pp_125_128_BUSPIRONE at page 125, the next item at page 130
BuspironeOutlines ==
    { <<TocItem(BuspironeTitle, 125), TocItem(t, 130)>> :
          t \in Titles \cup OtherTitles }

\* lines 475-479 and 516: the outline and the page count of the document
OutlineInit ==
    /\ \/ /\ total_pages = MaxPages
          /\ table_of_contents \in
                ListsUpTo({TocItem(t, p) : t \in Titles, p \in 1..MaxPages},
                          MaxToc)
       \/ /\ total_pages = 134
          /\ table_of_contents \in BuspironeOutlines
    /\ drug_page = <<>>
    /\ drug_images = <<>>
    /\ drug_page_ranges = <<>>
    /\ o_idx = 0
    /\ o_pc = "segment"
    /\ TreeInit /\ MergeIdle /\ ClozeIdle /\ RunIdle /\ FileRead /\ PageIdle

\* lines 531-567: one item of the first loop
SegmentItem ==
    /\ o_pc = "segment" /\ o_idx < Len(table_of_contents)
    /\ LET item == table_of_contents[o_idx + 1]
       IN  IF IsDrugTitle(item.title)
           THEN LET start_page == item.page
                    end_page == EndPage(table_of_contents, o_idx, total_pages)
                IN  drug_page' =
                        DictSet(drug_page, DrugName(item.title),
                                PagesInRange(start_page, end_page, total_pages))
           ELSE drug_page' = drug_page
    /\ o_idx' = o_idx + 1
    /\ UNCHANGED <<table_of_contents, total_pages, drug_images,
                   drug_page_ranges, o_pc>>
    /\ UNCHANGED NotOutline

\* lines 569-577: the first loop is over, the second starts
StartRanges ==
    /\ o_pc = "segment" /\ o_idx = Len(table_of_contents)
    /\ o_idx' = 0
    /\ o_pc' = "ranges"
    /\ UNCHANGED <<table_of_contents, total_pages, drug_page, drug_images,
                   drug_page_ranges>>
    /\ UNCHANGED NotOutline

\* RangeItem with the rule of the last segment tried when the pp pattern
\* gives no identifier
RangeItemWithFallback ==
    /\ o_pc = "ranges" /\ o_idx < Len(table_of_contents)
    /\ LET item == table_of_contents[o_idx + 1]
           start_page == item.page
           end_page == EndPage(table_of_contents, o_idx, total_pages)
           pages == PagesInRange(start_page, end_page, total_pages)
       IN  IF IsDrugTitle(item.title)
           THEN /\ drug_images' =
                      DictSet(drug_images, DrugName(item.title), pages)
                /\ drug_page_ranges' =
                      DictSet(drug_page_ranges, DrugName(item.title),
                              <<start_page, end_page>>)
           ELSE IF IsDrugTitleTrailing(item.title)
           THEN /\ drug_images' =
                      DictSet(drug_images, LastSegment(item.title), pages)
                /\ drug_page_ranges' =
                      DictSet(drug_page_ranges, LastSegment(item.title),
                              <<start_page, end_page>>)
           ELSE UNCHANGED <<drug_images, drug_page_ranges>>
    /\ o_idx' = o_idx + 1
    /\ UNCHANGED <<table_of_contents, total_pages, drug_page, o_pc>>
    /\ UNCHANGED NotOutline

\* lines 577-603: one item of the second loop
RangeItem ==
    /\ o_pc = "ranges" /\ o_idx < Len(table_of_contents)
    /\ LET item == table_of_contents[o_idx + 1]
       IN  IF IsDrugTitle(item.title)
           THEN LET start_page == item.page
                    end_page == EndPage(table_of_contents, o_idx, total_pages)
                IN  /\ drug_images' =
                          DictSet(drug_images, DrugName(item.title),
                                  PagesInRange(start_page, end_page,
                                               total_pages))
                    /\ drug_page_ranges' =
                          DictSet(drug_page_ranges, DrugName(item.title),
                                  <<start_page, end_page>>)
           ELSE UNCHANGED <<drug_images, drug_page_ranges>>
    /\ o_idx' = o_idx + 1
    /\ UNCHANGED <<table_of_contents, total_pages, drug_page, o_pc>>
    /\ UNCHANGED NotOutline

\* line 605: the second loop is over
EndRanges ==
    /\ o_pc = "ranges" /\ o_idx = Len(table_of_contents)
    /\ o_pc' = "done"
    /\ UNCHANGED <<table_of_contents, total_pages, drug_page, drug_images,
                   drug_page_ranges, o_idx>>
    /\ UNCHANGED NotOutline

OutlineNext ==
    \/ SegmentItem
    \/ StartRanges
    \/ RangeItem
    \/ EndRanges

SpecOutline == OutlineInit /\ [][OutlineNext]_vars

(***************************************************************************)
(* SpecPage: one call of _clean_page_headers (lines 51-102) on a page of   *)
(* an entry.  The page is the list of its <p> elements in document order,  *)
(* each the token sequence of its content; the other elements of the page  *)
(* are not touched by the function and are left out.                       *)
(***************************************************************************)
MaxPageParas == 4

PublisherNotice == "Published online by Cambridge University Press"

\* the paragraphs a page of the model is made of
PageParagraphs ==
    { <<"12">>, <<"<b>", "12", "</b>">>, <<"(continued)">>,
      <<"(Continued)">>, <<"BUSPIRONE">>, <<PublisherNotice>>, <<"x">>,
      <<" ">> }

\* the identifiers of the entries whose pages are cleaned
PageDrugNames == {"BUSPIRONE", "ZOLPIDEM"}

\* the text tokens made of decimal digits only
DigitTokens == {"12"}

\* str.isdigit(): not empty and digits only
IsDigit(text) ==
    text # <<>> /\ \A i \in 1..Len(text) : text[i] \in DigitTokens

\* str.lower(), token by token
LowerToken(tok) ==
    CASE tok = "(Continued)" -> "(continued)"
      [] tok = "BUSPIRONE" -> "buspirone"
      [] tok = PublisherNotice ->
             "published online by cambridge university press"
      [] OTHER -> tok

LowerText(text) == [i \in 1..Len(text) |-> LowerToken(text[i])]

\* lines 92-97: the paragraph is a header to remove
IsPageHeader(p, drug_name) ==
    LET text == GetTextStrip(p)
    IN  \/ IsDigit(text)
        \/ LowerText(text) = <<"(continued)">>
        \/ text = <<drug_name>>
        \/ text = <<PublisherNotice>>

\* p.decompose(): the element leaves the tree it is in
Decompose(soup, id) == SelectSeq(soup, LAMBDA e : e.id # id)

\* the paragraphs of a tree
ParagraphsOf(soup) == [i \in 1..Len(soup) |-> soup[i].p]

\* the element of a tree that find_all returned as number id
ParagraphOf(soup, id) ==
    (CHOOSE e \in {soup[k] : k \in 1..Len(soup)} : e.id = id).p

\* min(3, len(paragraphs))
HeaderLimit(n) == IF n < 3 THEN n ELSE 3

PageInit ==
    /\ page_soup \in ListsUpTo(PageParagraphs, MaxPageParas)
    /\ h_drug_name \in PageDrugNames
    /\ soup_copy = <<>>
    /\ h_paragraphs = <<>>
    /\ h_i = 0
    /\ h_pc = "call"
    /\ TreeInit /\ MergeIdle /\ ClozeIdle /\ RunIdle /\ OutlineIdle /\ FileRead

\* lines 77-80: the page is parsed again into a copy; paragraphs holds the
\* <p> elements of the copy
CopyPage ==
    /\ h_pc = "call"
    /\ soup_copy' = [i \in 1..Len(page_soup) |-> [id |-> i, p |-> page_soup[i]]]
    /\ h_paragraphs' = [i \in 1..Len(page_soup) |-> i]
    /\ h_i' = 0
    /\ h_pc' = "loop"
    /\ UNCHANGED <<page_soup, h_drug_name>>
    /\ UNCHANGED NotPage

\* CheckHeader going on to the next paragraph after one that is no header
CheckHeaderNoBreak ==
    /\ h_pc = "loop"
    /\ h_i < HeaderLimit(Len(h_paragraphs))
    /\ LET id == h_paragraphs[h_i + 1]
       IN  soup_copy' = IF IsPageHeader(ParagraphOf(soup_copy, id), h_drug_name)
                        THEN Decompose(soup_copy, id)
                        ELSE soup_copy
    /\ h_i' = h_i + 1
    /\ h_pc' = "loop"
    /\ UNCHANGED <<page_soup, h_drug_name, h_paragraphs>>
    /\ UNCHANGED NotPage

\* lines 83-100: one iteration of the loop over the first paragraphs
CheckHeader ==
    /\ h_pc = "loop"
    /\ h_i < HeaderLimit(Len(h_paragraphs))
    /\ LET id == h_paragraphs[h_i + 1]
           p == ParagraphOf(soup_copy, id)
       IN  IF IsPageHeader(p, h_drug_name)
           THEN /\ soup_copy' = Decompose(soup_copy, id)
                /\ h_i' = h_i + 1
                /\ h_pc' = "loop"
           ELSE /\ h_pc' = "done"
                /\ UNCHANGED <<soup_copy, h_i>>
    /\ UNCHANGED <<page_soup, h_drug_name, h_paragraphs>>
    /\ UNCHANGED NotPage

\* lines 83, 102: the loop is over and the copy is returned
EndHeaders ==
    /\ h_pc = "loop"
    /\ h_i >= HeaderLimit(Len(h_paragraphs))
    /\ h_pc' = "done"
    /\ UNCHANGED <<page_soup, h_drug_name, soup_copy, h_paragraphs, h_i>>
    /\ UNCHANGED NotPage

PageNext ==
    \/ CopyPage
    \/ CheckHeader
    \/ EndHeaders

SpecPage == PageInit /\ [][PageNext]_vars

(***************************************************************************)
(* Claims about the Empty-Header Merger (checked under Spec).              *)
(***************************************************************************)
Max(a, b) == IF a >= b THEN a ELSE b

\* C1: the Empty-Header Merger is idempotent: for every tree the scan can
\* build, merging the merged tree returns it unchanged (same keys, same key
\* order, same values), and the tree parse_drug_pages returns is such a
\* fixed point.
C1_MergeIdempotent ==
    /\ LET out == _merge_empty_headers(IF pc = "scan" THEN drug_dict ELSE built)
       IN  _merge_empty_headers(out) = out
    /\ pc = "done" => _merge_empty_headers(drug_dict) = drug_dict

\* C1 witness: a finished merge that needed two merging passes at the H1 level
C1_Witness ==
    pc = "done" /\ level = "h1" /\ passes >= 3 /\ drug_dict # built

\* C2 as stated: a call on a mapping with K keys makes at most K-1 merges
C2_AtMostKMinusOneMerges ==
    pc = "while" => merges <= K0 - 1

\* C2 (amended): a call of _merge_empty_consecutive on a mapping with K keys
\* makes at most K-1 merges over all passes when K >= 1 and none when K = 0;
\* every pass lowers the key count by at least the number of merges it made;
\* a pass that merged is followed by another pass, the first pass without a
\* merge ends the loop, and the number of passes is at most merges + 1.
C2_Termination ==
    /\ [](pc = "while" =>
            /\ merges <= Max(K0 - 1, 0)
            /\ Len(result) <= K0 - merges
            /\ passes <= merges + 1
            /\ passes <= Max(K0, 1))
    /\ [][(pc = "while" /\ pc' = "while" /\ passes' = passes + 1) =>
            /\ changed
            /\ Len(result') <= Len(result) - lastMerges'
            /\ merges' = merges + lastMerges'
            /\ changed' = (lastMerges' > 0)]_vars
    /\ [][(pc = "while" /\ ~changed) => (pc' # "while" /\ passes' = passes)]_vars

\* C2 witness: a call on three keys that made two merges in three passes
C2_Witness ==
    pc = "while" /\ ~changed /\ K0 = 3 /\ merges = 2 /\ passes = 3

(***************************************************************************)
(* Claims about the cloze encoders (checked under SpecCloze).              *)
(***************************************************************************)
\* the numbers of the opening cloze markers of a text, in order
RECURSIVE OpenNumbers(_)
OpenNumbers(s) ==
    IF s = <<>> THEN <<>>
    ELSE IF s[1] \in OpenMarkers
         THEN <<ClozeNumber(s[1])>> \o OpenNumbers(Tail(s))
         ELSE OpenNumbers(Tail(s))

CountOpen(s) == Len(OpenNumbers(s))
CountClose(s) == Len(SelectSeq(s, LAMBDA tok : tok = CloseMarker))

DrowsinessFragment == <<"<span>", "Drowsiness;", " ", "fatigue", "</span>">>

\* C3: in multicloze format, the cloze spans of every accepted answer are
\* numbered 1, 2, 3, ... in order of appearance, without repetition or gap.
C3_MulticlozeNumbering ==
    (c_pc = "added" /\ c_format = "multicloze") =>
        OpenNumbers(c_cloze) = [i \in 1..CountOpen(c_cloze) |-> i]

\* C4: every onecloze or multicloze answer has as many opening as closing
\* cloze markers, as encoded and after post-processing (empty spans removed,
\* trailing line breaks trimmed); so has every answer that passes the gate.
C4_MarkersBalanced ==
    (c_pc \in {"encoded", "post", "added", "AssertionError"}
        /\ c_format \in {"onecloze", "multicloze"}) =>
        /\ CountOpen(c_raw) = CountClose(c_raw)
        /\ c_pc # "encoded" => CountOpen(c_cloze) = CountClose(c_cloze)
        /\ c_pc = "added" => CountOpen(c_cloze) >= 1

\* C4 witness: an accepted multicloze answer of two spans from which empty
\* spans and trailing line breaks were removed
C4_Witness ==
    /\ c_pc = "added" /\ c_format = "multicloze"
    /\ CountOpen(c_cloze) = 2
    /\ CountOpen(c_raw) > CountOpen(c_cloze)

\* C5 as stated: singlecloze on "Drowsiness; fatigue" yields exactly
\* {{c1::Drowsiness; fatigue}}
C5_ExactSingleCloze ==
    (c_pc = "added" /\ c_format = "singlecloze"
        /\ c_content = <<DrowsinessFragment>>) =>
        c_cloze = <<OpenMarker(1), "Drowsiness;", " ", "fatigue", CloseMarker>>

\* C5 (amended): singlecloze on "Drowsiness; fatigue" yields exactly
\* {{c1::<br/>Drowsiness; fatigue<br/><br/>}}; every singlecloze answer is
\* one cloze span numbered 1 whose content is a line break, the normalized
\* answer without bullet glyphs, and a line break; it has no empty span.
C5_SingleClozeScenario ==
    (c_pc = "added" /\ c_format = "singlecloze") =>
        /\ c_cloze = <<OpenMarker(1), BR>> \o RemoveBullets(c_answer)
                     \o <<BR, CloseMarker>>
        /\ OpenNumbers(c_cloze) = <<1>> /\ CountClose(c_cloze) = 1
        /\ RemoveEmptyClozes(c_cloze) = c_cloze
        /\ c_content = <<DrowsinessFragment>> =>
              /\ c_answer = <<"Drowsiness;", " ", "fatigue", BR>>
              /\ c_cloze = <<OpenMarker(1), BR, "Drowsiness;", " ", "fatigue",
                             BR, BR, CloseMarker>>

\* C5 witness: the singlecloze note of the scenario has been added
C5_Witness ==
    c_pc = "added" /\ c_format = "singlecloze"
        /\ c_content = <<DrowsinessFragment>>

(***************************************************************************)
(* Claims about a run of parse_pdf (checked under SpecRun).                *)
(***************************************************************************)
\* a cloze answer that lacks an opening or a closing cloze marker
LacksMarker(text) == CountOpen(text) = 0 \/ CountClose(text) = 0

Offending(card) ==
    r_format # "basic" /\ LacksMarker(ClozeAnswer(r_format, card))

\* C6: a card whose normalized answer is empty is non-fatal in every output
\* format: it never ends the run, and when the run is over the package is
\* written and the card's index is among the warnings.
C6_EmptyAnswerNonFatal ==
    /\ r_pc = "aborted" => ~EmptyAnswer(cards[note_i])
    /\ r_pc = "finished" =>
          /\ package_written
          /\ \A i \in 1..Len(cards) :
                EmptyAnswer(cards[i]) =>
                    \E w \in 1..Len(warnings) : warnings[w] = i - 1

\* C7: if a card's cloze answer lacks an opening or a closing marker after
\* post-processing, the run ends with an error at that card and no package
\* is written: every card before it has its note (none is skipped), and a
\* package is only ever written when no card lacks a marker.
C7_GateAbortsRun ==
    /\ r_pc = "notes" => Len(notes) = note_i - 1
    /\ r_pc = "aborted" =>
          /\ error = "AssertionError"
          /\ ~package_written
          /\ Offending(cards[note_i])
          /\ Len(notes) = note_i - 1
          /\ \A i \in 1..(note_i - 1) : ~Offending(cards[i])
    /\ (package_written \/ r_pc \in {"cleanup", "check", "finished"}) =>
          /\ \A i \in 1..Len(cards) : ~Offending(cards[i])
          /\ Len(notes) = Len(cards)
          /\ error = "none"

\* C7 witness: the run was aborted at a card with a non-empty answer, after
\* the note of an earlier card had been added
C7_Witness ==
    /\ r_pc = "aborted" /\ Len(notes) >= 1
    /\ ~EmptyAnswer(cards[note_i])

\* the (entry, major-header, topic-header) triples of the first n entries,
\* counted
RECURSIVE TopicCount(_, _)
TopicCount(dc, n) ==
    IF n = 0 THEN 0
    ELSE LET RECURSIVE Sum(_)
             Sum(k) == IF k = 0 THEN 0
                       ELSE Len(dc[n].v[k].v) + Sum(k - 1)
         IN  TopicCount(dc, n - 1) + Sum(Len(dc[n].v))

\* the triple of the number-th card, searched in tree order
TripleOf(dc, number) ==
    CHOOSE t \in {<<i, j, k>> : i \in 1..Len(dc), j \in 1..3, k \in 1..3} :
        /\ t[2] <= Len(dc[t[1]].v) /\ t[3] <= Len(dc[t[1]].v[t[2]].v)
        /\ number = (TopicCount(dc, t[1] - 1) + t[3]) +
                     Cardinality({p \in (1..3) \X (1..3) :
                         /\ p[1] < t[2]
                         /\ p[2] <= Len(dc[t[1]].v[p[1]].v)})

\* C8: the number of cards equals the number of topic-headers over all
\* entries of the merged trees; the cards are the (entry, major-header,
\* topic-header) triples in tree order, one card each, topics with an empty
\* content list included, and a major-header without topics gives no card.
C8_CardCount ==
    /\ r_pc = "cards" => Len(cards) = TopicCount(drug_content, drug_i - 1)
    /\ r_pc \notin {"start", "cards"} =>
          /\ Len(cards) = TopicCount(drug_content, Len(drug_content))
          /\ \A n \in 1..Len(cards) :
                LET t == TripleOf(drug_content, n)
                    entry == drug_content[t[1]]
                    major == entry.v[t[2]]
                    topic == major.v[t[3]]
                IN  /\ cards[n].Drug = Title(UnderscoreToSpace(entry.k))
                    /\ cards[n].Section = Title(major.k)
                    /\ cards[n].Question = Question(topic.k)
                    /\ (topic.v = <<>>) => cards[n].Answer = <<>>

\* C8 witness: the card loop is over for two entries, one with a topic
\* without content and a second major-header, one with a major-header
\* without topics
C8_Witness ==
    /\ r_pc = "notes" /\ Len(drug_content) = 2
    /\ Len(cards) = 3
    /\ \E i \in 1..Len(cards) : EmptyAnswer(cards[i])
    /\ \E i \in 1..Len(drug_content) : drug_content[i].v = <<Item("AA", <<>>)>>
(***************************************************************************)
(* Claims about the page ranges (checked under SpecOutline).               *)
(***************************************************************************)
\* the outline items (numbered from 1) that give an identifier
Surviving == {i \in 1..Len(table_of_contents) :
                 IsDrugTitle(table_of_contents[i].title)}

DistinctIdentifiers ==
    \A i, j \in Surviving :
        DrugName(table_of_contents[i].title)
            = DrugName(table_of_contents[j].title) => i = j

MonotonePages ==
    /\ \A i \in 1..Len(table_of_contents) :
          table_of_contents[i].page \in 1..total_pages
    /\ \A i \in 1..(Len(table_of_contents) - 1) :
          table_of_contents[i].page <= table_of_contents[i + 1].page

InRange(page_num, range) == range[1] <= page_num /\ page_num <= range[2]

RangesOf(page_num) ==
    {k \in 1..Len(drug_page_ranges) : InRange(page_num, drug_page_ranges[k].v)}

\* C9 as stated: for every outline with N surviving entries (distinct
\* identifiers) the page ranges partition [1, total_pages] into N
\* non-overlapping intervals with increasing start pages; every page of the
\* document lies in exactly one range.  Stated here for the outlines that
\* have a surviving entry and non-decreasing pages inside the document only.
C9_RangesPartition ==
    (o_pc = "done" /\ DistinctIdentifiers /\ MonotonePages
        /\ Surviving # {}) =>
        /\ Len(drug_page_ranges) = Cardinality(Surviving)
        /\ \A page_num \in 1..total_pages :
              Cardinality(RangesOf(page_num)) = 1
        /\ \A k, l \in 1..Len(drug_page_ranges) :
              k < l => drug_page_ranges[k].v[1] < drug_page_ranges[l].v[1]

\* C9 amended: for every outline whose pages are non-decreasing and inside
\* the document, with N surviving entries (distinct identifiers), there are
\* N page ranges, inside [1, total_pages], with non-decreasing start pages,
\* and every page of the document lies in at most one of them.
C9_RangesDisjoint ==
    (o_pc = "done" /\ DistinctIdentifiers /\ MonotonePages) =>
        /\ Len(drug_page_ranges) = Cardinality(Surviving)
        /\ \A k \in 1..Len(drug_page_ranges) :
              /\ drug_page_ranges[k].v[1] >= 1
              /\ drug_page_ranges[k].v[2] <= total_pages
        /\ \A page_num \in 1..total_pages :
              Cardinality(RangesOf(page_num)) <= 1
        /\ \A k, l \in 1..Len(drug_page_ranges) :
              k < l => drug_page_ranges[k].v[1] <= drug_page_ranges[l].v[1]

\* C9 witness: three outline items with non-decreasing pages, two of them
\* surviving with different identifiers and a range of at least one page
\* each, and a page of the document that lies in no range
C9_Witness ==
    /\ o_pc = "done" /\ DistinctIdentifiers /\ MonotonePages
    /\ Len(table_of_contents) = 3
    /\ Len(drug_page_ranges) = 2
    /\ \A k \in 1..2 : drug_page_ranges[k].v[1] <= drug_page_ranges[k].v[2]
    /\ \E page_num \in 1..total_pages : RangesOf(page_num) = {}

\* the range the claim gives the i-th outline item (numbered from 1)
ExpectedRange(i) ==
    <<table_of_contents[i].page,
      IF i < Len(table_of_contents)
      THEN table_of_contents[i + 1].page - 1
      ELSE total_pages>>

\* the last outline item that gives the identifier name
LastWith(name) ==
    CHOOSE i \in Surviving :
        /\ DrugName(table_of_contents[i].title) = name
        /\ \A j \in Surviving :
              DrugName(table_of_contents[j].title) = name => j <= i

\* C10: for every surviving outline entry the start page is the entry's own
\* page and the end page is the page of the item that follows it in the
\* outline, surviving or not, minus one, or total_pages for the last item:
\* that is the range recorded when the entry is handled and the range the
\* mapping holds in the end (for the last entry with the identifier), and
\* the pages collected are the pages of that range.  The title
\* 26.0_pp_125_128_BUSPIRONE at page 125 followed by an item at page 130
\* gives BUSPIRONE the range [125, 129].
C10_PageRange ==
    /\ (o_pc = "ranges" /\ o_idx \in Surviving) =>
          DictGet(drug_page_ranges,
                  DrugName(table_of_contents[o_idx].title))
              = ExpectedRange(o_idx)
    /\ o_pc = "done" =>
          /\ \A i \in Surviving :
                HasKey(drug_page_ranges, DrugName(table_of_contents[i].title))
          /\ \A k \in 1..Len(drug_page_ranges) :
                LET name == drug_page_ranges[k].k
                    range == ExpectedRange(LastWith(name))
                IN  /\ \E i \in Surviving :
                          DrugName(table_of_contents[i].title) = name
                    /\ drug_page_ranges[k].v = range
                    /\ \A page_num \in 1..total_pages :
                          InRange(page_num, range) <=>
                              \E n \in 1..Len(DictGet(drug_page, name)) :
                                  DictGet(drug_page, name)[n] = page_num
    /\ (/\ o_pc \in {"ranges", "done"} /\ o_idx >= 1
        /\ Len(table_of_contents) >= 2
        /\ table_of_contents[1] = TocItem(BuspironeTitle, 125)
        /\ table_of_contents[2].page = 130
        /\ \A i \in Surviving :
              i > 1 => DrugName(table_of_contents[i].title) # "BUSPIRONE") =>
          DictGet(drug_page_ranges, "BUSPIRONE") = <<125, 129>>

\* C10 witness: the BUSPIRONE outline, followed at page 130 by an item that
\* gives no identifier, has been handled
C10_Witness ==
    /\ o_pc = "done"
    /\ table_of_contents =
           <<TocItem(BuspironeTitle, 125), TocItem(<<"Index">>, 130)>>
    /\ Keys(drug_page_ranges) = <<"BUSPIRONE">>
    /\ DictGet(drug_page, "BUSPIRONE") = <<125, 126, 127, 128, 129>>
\* the outline items (numbered from 1) that fail the pp pattern and whose
\* last segment is all uppercase
TrailingOnly == {i \in 1..Len(table_of_contents) :
                    /\ ~IsDrugTitle(table_of_contents[i].title)
                    /\ IsDrugTitleTrailing(table_of_contents[i].title)}

\* C11 as stated: an outline entry whose title gives no identifier through
\* the pp pattern is still accepted as an entry start when its trailing
\* underscore-delimited token is entirely uppercase, with that token as
\* identifier.
C11_TrailingTokenFallback ==
    o_pc = "done" =>
        \A i \in TrailingOnly :
            /\ HasKey(drug_page, LastSegment(table_of_contents[i].title))
            /\ HasKey(drug_page_ranges,
                      LastSegment(table_of_contents[i].title))

\* C11 amended: the outline loops of stahl_ankifier.py apply the pp pattern
\* only: the identifiers of drug_page, drug_images and drug_page_ranges are
\* exactly the identifiers the pp pattern gives, and an entry that fails the
\* pattern is skipped even when its trailing token is entirely uppercase.
C11_OnlyPPRule ==
    o_pc = "done" =>
        /\ \A i \in Surviving :
              LET name == DrugName(table_of_contents[i].title)
              IN  /\ HasKey(drug_page, name)
                  /\ HasKey(drug_images, name)
                  /\ HasKey(drug_page_ranges, name)
        /\ \A d \in {drug_page, drug_images, drug_page_ranges} :
              \A k \in 1..Len(d) :
                  \E i \in Surviving :
                      DrugName(table_of_contents[i].title) = d[k].k
        /\ \A i \in TrailingOnly :
              LET name == LastSegment(table_of_contents[i].title)
              IN  (\A j \in Surviving :
                       DrugName(table_of_contents[j].title) # name) =>
                      /\ ~HasKey(drug_page, name)
                      /\ ~HasKey(drug_images, name)
                      /\ ~HasKey(drug_page_ranges, name)

\* C11 witness: both loops are over for an outline whose second title,
\* pp_1_2_ZOLPIDEM, has no segment before pp and ends in an uppercase token;
\* only BUSPIRONE is an entry
C11_Witness ==
    /\ o_pc = "done"
    /\ Len(table_of_contents) = 2
    /\ table_of_contents[2].title = <<"pp", "1", "2", "ZOLPIDEM">>
    /\ TrailingOnly = {2}
    /\ Keys(drug_page) = <<"BUSPIRONE">>
\* C12: when two outline entries give the same identifier, the later one
\* overwrites the earlier one without an error: in the end the identifier has
\* the page range, the pages and the page images of the last entry with that
\* identifier, all three from that same entry, and it has one key only.
C12_LastWriteWins ==
    /\ o_pc \in {"segment", "ranges", "done"}
    /\ o_pc = "done" =>
          /\ DistinctKeys(drug_page)
          /\ DistinctKeys(drug_images)
          /\ DistinctKeys(drug_page_ranges)
          /\ \A i \in Surviving :
                LET name == DrugName(table_of_contents[i].title)
                    last == LastWith(name)
                    range == ExpectedRange(last)
                    pages == PagesInRange(range[1], range[2], total_pages)
                IN  /\ DictGet(drug_page_ranges, name) = range
                    /\ DictGet(drug_page, name) = pages
                    /\ DictGet(drug_images, name) = pages

\* C12 witness: the first two outline items give the identifier BUSPIRONE
\* and have different ranges with different pages; the mapping holds those
\* of the later one
C12_Witness ==
    /\ o_pc = "done"
    /\ Len(table_of_contents) = 2
    /\ Surviving = {1, 2}
    /\ ~DistinctIdentifiers
    /\ ExpectedRange(1) # ExpectedRange(2)
    /\ DictGet(drug_page_ranges, "BUSPIRONE") = ExpectedRange(2)
    /\ DictGet(drug_page, "BUSPIRONE") # <<>>
    /\ DictGet(drug_page, "BUSPIRONE")
           # PagesInRange(ExpectedRange(1)[1], ExpectedRange(1)[2], total_pages)
(***************************************************************************)
(* Claims about the block scan of parse_drug_pages (checked under Spec).   *)
(***************************************************************************)
\* line 379 fails: the bold text is empty or one character long
Degenerate(b) == ~(b.boldText # "" /\ Len(b.boldText) > 1)

FirstEmptyH1(d) ==
    CHOOSE i \in 1..(Len(d) - 1) :
        /\ IsEmptyH1(d[i].v)
        /\ \A j \in 1..(i - 1) : ~IsEmptyH1(d[j].v)

SuggestedReadingTexts ==
    {"Suggested Reading", "SUGGESTED READING", "suggested reading"}

\* the number of line breaks of a text
CountBR(text) == Len(SelectSeq(text, LAMBDA tok : tok = BR))

\* the number of fragments that start a group: the first one and every one
\* whose text starts with the bullet glyph
GroupCount(content_list) ==
    Cardinality({i \in 1..Len(content_list) :
                    i = 1 \/ StartsWithBullet(content_list[i])})

\* C15: bullet-continuation merging is skipped exactly for the topics whose
\* header equals "suggested reading" when case is ignored: their fragments
\* stay separate, one line each, also when none starts with a bullet glyph;
\* for every other header the merge is applied, one line per group.
C15_SuggestedReadingSkipsMerge ==
    c_pc # "topic" =>
        IF c_header \in SuggestedReadingTexts
        THEN /\ CountBR(c_answer) = Len(c_content)
             /\ c_answer = _remove_paragraph_tags(
                               _clean_html_keep_formatting(c_content))
        ELSE /\ CountBR(c_answer) = GroupCount(c_content)
             /\ c_answer = _remove_paragraph_tags(
                               _clean_html_keep_formatting(
                                   _merge_bullet_paragraphs(c_content)))

\* C15 witness: the card of a topic Suggested Reading with two fragments,
\* none starting with a bullet glyph, keeps them on two lines
C15_Witness ==
    /\ c_pc = "card"
    /\ c_header = "Suggested Reading"
    /\ c_content = << <<"y">>, <<"y">> >>
    /\ c_answer = <<"y", BR, "y", BR>>
\* the tokens of a list of paragraphs
TokensOf(paragraphs) ==
    {paragraphs[i][j] : <<i, j>> \in
        {<<i, j>> \in (1..Len(paragraphs)) \X (1..8) : j <= Len(paragraphs[i])}}

\* C16: the markup whitelist filter is idempotent, and its output holds no
\* element outside the allowed tags and no style attribute: for the content
\* of every topic, as stored and as merged by bullet continuation, filtering
\* the filtered content changes nothing, and neither the filtered content
\* nor the answer made from it holds a tag that is not allowed or is styled.
C16_FilterIdempotent ==
    c_pc # "topic" =>
        /\ \A input \in {c_content, _merge_bullet_paragraphs(c_content)} :
              LET out == _clean_html_keep_formatting(input)
              IN  /\ _clean_html_keep_formatting(out) = out
                  /\ TokensOf(out) \cap (OtherTags \cup StyledTags) = {}
                  /\ Len(out) = Len(input)
        /\ \A i \in 1..Len(c_answer) :
              c_answer[i] \notin OtherTags \cup StyledTags

\* C16 witness: the card of a content list that holds a span and a styled
\* bold element; the answer keeps the bold text without span and style
C16_Witness ==
    /\ c_pc = "card"
    /\ c_content = << <<"<span>", "<b style>", "w", "</b>", "</span>">> >>
    /\ c_answer = <<"<b>", "w", "</b>", BR>>
(***************************************************************************)
(* Claims about the validation of the arguments (checked under             *)
(* SpecValidate).                                                          *)
(***************************************************************************)
\* C17: a format value that is not one of the four formats is a fatal error
\* raised before any processing starts: the run never opens the document,
\* never creates the temporary directory, makes no card and writes no
\* package, and once the arguments are validated it has ended with an error.
C17_InvalidFormatRejected ==
    r_format \notin {"basic", "singlecloze", "onecloze", "multicloze"} =>
        /\ ~doc_opened
        /\ temp_dir = "none"
        /\ ~package_written
        /\ cards = <<>> /\ notes = <<>>
        /\ r_pc \in {"validate", "format", "rejected"}
        /\ r_pc = "rejected" => error \in {"ValueError", "FileNotFoundError"}
        /\ r_pc # "rejected" => error = "none"

\* C17 witness: an existing PDF file and the format value cloze: the run
\* has ended with ValueError
C17_Witness ==
    /\ r_format = "cloze"
    /\ pdf_exists /\ pdf_suffix = ".pdf"
    /\ r_pc = "rejected" /\ error = "ValueError"
    /\ ~doc_opened
\* C18: the scan of a major-header block unsets the current topic; the
\* current topic stays unset until a non-degenerate topic-header block is
\* scanned; and a content block scanned while no topic is open (after a
\* major-header, or before any topic-header) or no major-header is open is
\* discarded: the tree stays as it is.
C18_MajorHeaderResetsTopic ==
    /\ [][\A b \in Blocks : ScanMajorHeader(b) => current_h2' = None]_vars
    /\ [][(pc = "scan" /\ current_h2 = None /\ current_h2' # None) =>
             \E b \in Blocks :
                 /\ IsTopicCandidate(b) /\ ~Degenerate(b)
                 /\ ScanTopicHeader(b)
                 /\ current_h2' = Some(b.boldText)]_vars
    /\ [][\A b \in Blocks :
             (ScanContent(b) /\ (current_h2 = None \/ current_h1 = None)) =>
                 drug_dict' = drug_dict]_vars

\* C18 witness: AA, aa, a content block, BB and one more block have been
\* scanned; the first content block is stored under aa, and nothing scanned
\* after BB is stored
C18_Witness ==
    /\ pc = "scan" /\ nblocks = 5
    /\ current_h1 = Some("BB") /\ current_h2 = None
    /\ drug_dict = <<Item("AA", <<Item("aa", << <<"x">> >>)>>),
                     Item("BB", <<>>)>>
\* the content list of topic h2 under major-header h1 in tree d, empty when
\* the topic is not there
ContentOf(d, h1, h2) ==
    IF HasKey(d, h1) /\ HasKey(DictGet(d, h1), h2)
    THEN DictGet(DictGet(d, h1), h2)
    ELSE <<>>

\* what the scan of the non-degenerate topic-header block b leaves of the
\* tree when it stores the topic under the open major-header
TopicStored(b) ==
    LET h1 == current_h1[1]
        h2 == b.boldText
    IN  /\ Keys(drug_dict') = Keys(drug_dict)
        /\ HasKey(drug_dict', h1)
        /\ HasKey(DictGet(drug_dict', h1), h2)
        /\ ContentOf(drug_dict', h1, h2) =
              ContentOf(drug_dict, h1, h2)
                  \o (IF HasText(b.rest) THEN <<b.rest>> ELSE <<>>)
        /\ \A i \in 1..Len(drug_dict) :
              drug_dict[i].k # h1 => drug_dict'[i] = drug_dict[i]
        /\ \A j \in 1..Len(DictGet(drug_dict, h1)) :
              DictGet(drug_dict, h1)[j].k # h2 =>
                  DictGet(drug_dict', h1)[j] = DictGet(drug_dict, h1)[j]

\* C19: when a non-degenerate topic-header block is scanned while
\* a major-header is open, the topic key exists under it afterwards (with an
\* empty list if new, its list kept otherwise) and the text outside the bold
\* run, if any, is appended as one fragment; when no major-header is open
\* the tree stays as it is.
C19_TopicHeaderStored ==
    [][\A b \in Blocks :
          (IsTopicCandidate(b) /\ ~Degenerate(b) /\ ScanTopicHeader(b)) =>
              IF current_h1 # None
              THEN TopicStored(b)
              ELSE drug_dict' = drug_dict]_vars
(***************************************************************************)
(* Claims about the merge at the topic level (checked under Spec).         *)
(***************************************************************************)
\* the header texts of the entries i..j of d joined by single spaces
RECURSIVE JoinKeys(_, _, _)
JoinKeys(d, i, j) ==
    IF i = j THEN d[i].k ELSE d[i].k \o " " \o JoinKeys(d, i + 1, j)

\* no two different stretches of consecutive entries of d give the same
\* joined text: no merged key can meet another key
NoKeyCollision(d) ==
    \A r1, r2 \in {r \in (1..Len(d)) \X (1..Len(d)) : r[1] <= r[2]} :
        JoinKeys(d, r1[1], r1[2]) = JoinKeys(d, r2[1], r2[2]) => r1 = r2

\* C20 as stated: a maximal run of topics without content is fused with
\* the topic that follows it; every other topic, a trailing run without a
\* following topic included, is kept.  run holds the entries of the run
\* met so far.
RECURSIVE FusedIfFollowed(_, _, _)
FusedIfFollowed(d, i, run) ==
    IF i > Len(d) THEN run
    ELSE IF d[i].v = <<>>
         THEN FusedIfFollowed(d, i + 1, Append(run, d[i]))
         ELSE LET all == Append(run, d[i])
              IN  <<Item(JoinKeys(all, 1, Len(all)), d[i].v)>>
                      \o FusedIfFollowed(d, i + 1, <<>>)

\* the same with a trailing run fused into one entry without content
RECURSIVE FusedRuns(_, _, _)
FusedRuns(d, i, run) ==
    IF i > Len(d)
    THEN IF run = <<>> THEN <<>>
         ELSE <<Item(JoinKeys(run, 1, Len(run)), <<>>)>>
    ELSE IF d[i].v = <<>>
         THEN FusedRuns(d, i + 1, Append(run, d[i]))
         ELSE LET all == Append(run, d[i])
              IN  <<Item(JoinKeys(all, 1, Len(all)), d[i].v)>>
                      \o FusedRuns(d, i + 1, <<>>)

\* the call of _merge_empty_consecutive for the topics of a major-header
\* has left its loop
TopicMergeOver == pc = "while" /\ ~changed /\ level = "h2"

GroupStarts(ps) == {i \in 1..Len(ps) : i = 1 \/ StartsWithBullet(ps[i])}

\* the index of the fragment that starts the g-th group
NthStart(ps, g) ==
    CHOOSE i \in GroupStarts(ps) :
        Cardinality({k \in GroupStarts(ps) : k <= i}) = g

\* the index of the last fragment of the group that starts at i
GroupEnd(ps, i) ==
    CHOOSE j \in i..Len(ps) :
        /\ \A k \in (i + 1)..j : k \notin GroupStarts(ps)
        /\ j = Len(ps) \/ (j + 1) \in GroupStarts(ps)

\* the paragraph the claim gives for the fragments i..j of one group
GroupParagraph(ps, i, j) ==
    IF i = j THEN ps[i]
    ELSE JoinSpace([k \in 1..(j - i + 1) |-> GetTextStrip(ps[i + k - 1])])

\* the paragraphs the claim gives for a list of fragments
ExpectedParagraphs(ps) ==
    [g \in 1..Cardinality(GroupStarts(ps)) |->
        GroupParagraph(ps, NthStart(ps, g), GroupEnd(ps, NthStart(ps, g)))]

\* the text of a list of paragraphs without its white space
InkOf(ps) ==
    SelectSeq(Concat([i \in 1..Len(ps) |-> GetTextStrip(ps[i])]),
              LAMBDA tok : tok \notin Whitespace)

\* C21: the bullet-continuation merge groups the fragments in order, a
\* fragment whose text starts with the bullet glyph starting a new group
\* and every other fragment joining the current one (the first fragment
\* starts a group in either case); the output is one paragraph per group, a
\* group of several fragments being their texts joined by single spaces; no
\* text is lost or reordered.  The answer of the card is made from these
\* paragraphs.
C21_BulletGroups ==
    (c_pc # "topic" /\ c_header \notin SuggestedReadingTexts) =>
        LET out == _merge_bullet_paragraphs(c_content)
        IN  /\ out = ExpectedParagraphs(c_content)
            /\ Len(out) = Cardinality(GroupStarts(c_content))
            /\ InkOf(out) = InkOf(c_content)
            /\ c_answer = _remove_paragraph_tags(
                              _clean_html_keep_formatting(
                                  ExpectedParagraphs(c_content)))

\* C21 witness: y, then a fragment with a bullet, then y: two groups, the
\* second one the bullet text and y joined by one space
C21_Witness ==
    /\ c_pc = "card"
    /\ c_header = "aa"
    /\ c_content = << <<"y">>, <<"<span>", Bullet, " ", "x", "</span>">>,
                      <<"y">> >>
    /\ c_answer = <<"y", BR, Bullet, " ", "x", " ", "y", BR>>
(***************************************************************************)
(* Claims about page-header cleaning (checked under SpecPage).             *)
(***************************************************************************)
\* the number of paragraphs the call has removed
Removed == Len(page_soup) - Len(soup_copy)

\* the call has returned: what it removed is a prefix of at most three
\* paragraphs, each one a header, ended by the first paragraph that is
\* none, and the rest is kept in order
PrefixRemoved ==
    h_pc = "done" =>
        /\ Removed \in 0..3
        /\ ParagraphsOf(soup_copy)
               = SubSeq(page_soup, Removed + 1, Len(page_soup))
        /\ \A i \in 1..Removed : IsPageHeader(page_soup[i], h_drug_name)
        /\ (Removed < 3 /\ Removed < Len(page_soup)) =>
               ~IsPageHeader(page_soup[Removed + 1], h_drug_name)

\* C22: page-header cleaning removes only a contiguous prefix of at most
\* three blocks of a page: it stops at the first block that is not a bare
\* integer, a "(continued)" marker, the entry identifier or the publisher
\* notice, removes no block after it and none beyond the third, keeps the
\* remaining blocks in order, and leaves the page it was given unmodified.
C22_HeaderPrefixOnly ==
    /\ []PrefixRemoved
    /\ [][page_soup' = page_soup]_vars

\* C22 witness: a page that starts with four headers has lost the first
\* three and kept the fourth
C22_Witness ==
    /\ h_pc = "done"
    /\ h_drug_name = "BUSPIRONE"
    /\ page_soup = << <<"12">>, <<"(Continued)">>, <<"BUSPIRONE">>, <<"12">> >>
    /\ ParagraphsOf(soup_copy) = << <<"12">> >>
(***************************************************************************)
(* Claims about the cloze encoders and the post-processing (checked under  *)
(* SpecCloze).                                                             *)
(***************************************************************************)
\* the card has been encoded and post-processed
PostProcessed ==
    c_format # "basic" /\ c_pc \in {"post", "added", "AssertionError"}

\* the split units of an answer: separated by line breaks, else by
\* newlines, else the whole content
UnitsOf(s) ==
    IF \E i \in 1..Len(s) : s[i] = BR THEN Split(s, BR)
    ELSE IF Len(SplitLines(Strip(s))) > 1 THEN SplitLines(s)
         ELSE <<s>>

\* a text with nothing but white space
Blank(s) == \A i \in 1..Len(s) : s[i] \in Whitespace

\* the units of an answer with their bullets stripped, those left empty
\* dropped
StrippedUnits(s) ==
    LET units == UnitsOf(s)
        stripped == [i \in 1..Len(units) |-> RemoveBullets(units[i])]
    IN  SelectSeq(stripped, LAMBDA u : ~Blank(u))

\* the index of the first closing marker of s from j on, or 0
RECURSIVE NextClose(_, _)
NextClose(s, j) ==
    IF j > Len(s) THEN 0
    ELSE IF s[j] = CloseMarker THEN j ELSE NextClose(s, j + 1)

\* the contents of the cloze spans of a text, in order
RECURSIVE SpanContents(_, _)
SpanContents(s, i) ==
    IF i > Len(s) THEN <<>>
    ELSE IF s[i] \in OpenMarkers /\ NextClose(s, i + 1) # 0
         THEN <<SubSeq(s, i + 1, NextClose(s, i + 1) - 1)>>
                  \o SpanContents(s, NextClose(s, i + 1) + 1)
         ELSE SpanContents(s, i + 1)

\* the units of an answer with their bullets stripped, those of no
\* character dropped
NonEmptyUnits(s) ==
    LET units == UnitsOf(s)
        stripped == [i \in 1..Len(units) |-> RemoveBullets(units[i])]
    IN  SelectSeq(stripped, LAMBDA u : u # <<>>)

\* C23 as stated: in onecloze format every split unit of the answer (units
\* separated by line breaks, else by newlines, else the whole content) that
\* is not empty after bullet stripping is wrapped in its own cloze span, and
\* every cloze span of the answer has number 1.
C23_OneClozeNonEmptyUnits ==
    (c_format = "onecloze" /\ PostProcessed) =>
        /\ \A i \in 1..Len(c_cloze) :
              c_cloze[i] \in OpenMarkers => c_cloze[i] = OpenMarker(1)
        /\ SpanContents(c_cloze, 1) = NonEmptyUnits(Cleanup(c_answer))

\* C23 amended: in onecloze format every split unit of the answer that
\* holds more than white space after bullet stripping is wrapped in its own
\* cloze span, a unit of white space only is wrapped in none, and every
\* cloze span of the answer has number 1: the spans of the cloze answer
\* are, in order, the stripped units that are not blank.
C23_OneClozeUnits ==
    (c_format = "onecloze" /\ PostProcessed) =>
        /\ \A i \in 1..Len(c_cloze) :
              c_cloze[i] \in OpenMarkers => c_cloze[i] = OpenMarker(1)
        /\ SpanContents(c_cloze, 1) = StrippedUnits(Cleanup(c_answer))

\* C23 witness: three units, the second one with a bullet, the third one
\* only a bullet: two spans with number 1
C23_Witness ==
    /\ c_format = "onecloze"
    /\ c_pc = "added"
    /\ c_answer = <<"y", BR, Bullet, " ", "x", BR, Bullet, BR>>
    /\ c_cloze = <<OpenMarker(1), "y", CloseMarker, BR,
                   OpenMarker(1), "x", CloseMarker>>
\* C24: after the cloze post-processing, in every cloze format, the cloze
\* answer holds no bullet glyph, holds no cloze span whose content is empty
\* or white space only, and does not end with a line-break element.
C24_PostProcessed ==
    PostProcessed =>
        /\ \A i \in 1..Len(c_cloze) : c_cloze[i] # Bullet
        /\ \A k \in 1..Len(SpanContents(c_cloze, 1)) :
              ~Blank(SpanContents(c_cloze, 1)[k])
        /\ c_cloze = <<>> \/ c_cloze[Len(c_cloze)] # BR

\* C24 witness: a multicloze answer encoded with a bullet, with empty spans
\* and with line breaks at its end, and post-processed to two spans
C24_Witness ==
    /\ c_format = "multicloze"
    /\ c_pc = "added"
    /\ \E i \in 1..Len(c_raw) : c_raw[i] = Bullet
    /\ \E k \in 1..Len(SpanContents(c_raw, 1)) : SpanContents(c_raw, 1)[k] = <<>>
    /\ c_cloze = <<OpenMarker(1), "y", CloseMarker, BR,
                   OpenMarker(1), "x", CloseMarker>>
(***************************************************************************)
(* Claims about the tree parse_drug_pages returns (checked under Spec).    *)
(***************************************************************************)
\* C25: in every tree parse_drug_pages returns, within each major-header
\* only the last topic may have an empty content list, and only the last
\* major-header may be empty (no topics, or all topics empty): no empty
\* header is followed by another header of its level.
C25_EmptyOnlyLast ==
    pc = "done" =>
        /\ \A i \in 1..(Len(drug_dict) - 1) : ~IsEmptyH1(drug_dict[i].v)
        /\ \A i \in 1..Len(drug_dict) :
              \A j \in 1..(Len(drug_dict[i].v) - 1) :
                  drug_dict[i].v[j].v # <<>>

\* C25 witness: a returned tree, changed by the merger, whose first
\* major-header has topics with content and whose last one is empty
C25_Witness ==
    /\ pc = "done"
    /\ drug_dict # built
    /\ Len(drug_dict) = 2
    /\ ~IsEmptyH1(drug_dict[1].v)
    /\ IsEmptyH1(drug_dict[2].v)
\* the content lists of the topics of a map, concatenated in order
RECURSIVE AllContent(_)
AllContent(d) == IF d = <<>> THEN <<>> ELSE Head(d).v \o AllContent(Tail(d))

\* C26: the merge at the topic level discards no content fragment: for
\* every major-header the content lists of its topics, concatenated in
\* order, are the same before and after _merge_empty_consecutive, also when
\* a joined key equals the text of another topic of the major-header.
C26_NoFragmentLost ==
    TopicMergeOver => AllContent(result) = AllContent(drug_dict[h1_i].v)
\* a span content with text in it: a token that is no tag and no white space
TextInSpan(u) == \E i \in 1..Len(u) : u[i] \notin Tags \cup Whitespace

\* C27: every cloze answer that passes the cloze gate holds at least one
\* cloze span with text in it, in the three cloze formats, also for a card
\* whose answer is empty.
C27_GatePassedHasText ==
    (PostProcessed /\ GatePasses(c_cloze)) =>
        \E k \in 1..Len(SpanContents(c_cloze, 1)) :
            TextInSpan(SpanContents(c_cloze, 1)[k])
(***************************************************************************)
(* Claims about the temporary directory (checked under SpecRun).           *)
(***************************************************************************)
\* the run has ended: it returned, or an exception left parse_pdf
RunEnded == r_pc \in {"finished", "aborted"}

\* C28: every run of parse_pdf that creates the temporary media directory
\* eventually removes it, on every way the run can end, a run that aborts
\* on a failed cloze gate included: no run has ended with the directory it
\* created still there.
C28_TempDirRemoved == (RunEnded /\ temp_dir # "none") => temp_dir = "removed"
(***************************************************************************)
(* Claims about the page ranges (checked under SpecOutline).               *)
(***************************************************************************)
\* C29: for every outline whose entry pages do not decrease in outline
\* order, the page range derived for every surviving entry is a non-empty
\* inclusive range (start <= end), also when two consecutive outline
\* entries start on the same page.
C29_RangeNotEmpty ==
    (MonotonePages /\ o_pc \in {"ranges", "done"}) =>
        \A k \in 1..Len(drug_page_ranges) :
            drug_page_ranges[k].v[1] <= drug_page_ranges[k].v[2]
(***************************************************************************)
(* Claims about the branch the cloze encoders take (checked under          *)
(* SpecCloze).                                                             *)
(***************************************************************************)
\* the answer has been handed to the encoder of a cloze format
Encoded == c_format # "basic" /\ c_pc \notin {"topic", "card"}

\* C30: for every card the normalized answer handed to the cloze encoder
\* holds no paragraph element, so in onecloze and multicloze the branch that
\* wraps paragraphs is never taken: an answer made from a content list that
\* is not empty is split on line breaks, and an answer made from an empty
\* content list takes the whole-content branch.
C30_NoParagraphBranch ==
    /\ c_pc # "topic" => ~HasP(c_answer) /\ ~HasP(Cleanup(c_answer))
    /\ c_pc # "TypeError"
    /\ (Encoded /\ c_format \in {"onecloze", "multicloze"}) =>
          LET answer_html == Cleanup(c_answer)
          IN  IF c_content # <<>>
              THEN /\ \E i \in 1..Len(answer_html) : answer_html[i] = BR
                   /\ c_raw = <<OpenMarker(1)>>
                                \o WrapUnits(Split(answer_html, BR), 1, c_format)
                                \o <<CloseMarker>>
              ELSE /\ answer_html = <<>>
                   /\ c_raw = <<OpenMarker(1), CloseMarker>>

\* C30 witness: the onecloze answer of one fragment, split on its line break
C30_Witness ==
    /\ c_format = "onecloze"
    /\ c_pc = "encoded"
    /\ c_content = << <<"y">> >>
    /\ c_answer = <<"y", BR>>
    /\ c_raw = <<OpenMarker(1), "y", CloseMarker, BR,
                 OpenMarker(1), CloseMarker, BR, OpenMarker(1), CloseMarker>>
=============================================================================
